---- MODULE Spec2Model ----
(***************************************************************************)
(* x402-go: the EVM "exact" payment scheme.                                *)
(*                                                                         *)
(* The module models                                                       *)
(*   - the signature verifiers (ERC-6492 parsing, EOA recovery, EIP-1271,  *)
(*     universal verification)            mechanisms/evm                   *)
(*   - the facilitator scheme (Verify, Settle, deploySmartWallet)          *)
(*                                        mechanisms/evm/exact/facilitator *)
(*   - the client scheme (CreatePaymentPayload)                            *)
(*                                        mechanisms/evm/exact/client      *)
(*   - the Facilitator contract's ERC-20 path (Solidity)                   *)
(*                                                                         *)
(* Bytes are abstracted: a signature is a record naming the key that made  *)
(* it, the digest it was made over and its length; an EIP-712 digest is    *)
(* the record of the fields that are hashed.                               *)
(***************************************************************************)
EXTENDS Integers, Sequences, FiniteSets, TLC

(***************************************************************************)
(* Values                                                                  *)
(***************************************************************************)

\* the 20-byte zero address ([20]byte{})
ZeroAddr == "0x0"

\* the address recovered from a signature presented over a digest it was
\* not made for (secp256k1 recovery yields an unrelated public key)
StrayAddr == "0xstray"

\* "no value" in optional positions
None == "none"

\* externally owned keys and smart-wallet addresses
KeyAddrs == {"K1", "K2"}
WalletAddrs == {"W1"}
FactoryAddrs == {"F1"}

\* a hex address string: the 20 bytes it denotes and its letter case
AddrStr(a, up) == [a |-> a, up |-> up]

\* common.HexToAddress: the 20 bytes, whatever the letter case
HexToAddress(s) == s.a

\* comparison of the two strings as they are written
EqualExact(s, t) == s = t

\* strings.EqualFold on two hex address strings
EqualFold(s, t) == s.a = t.a

\* constants.go
TxStatusSuccess == 1
TxStatusFailed == 0
SchemeExact == "exact"
ErrUndeployedSmartWallet == "invalid_exact_evm_payload_undeployed_smart_wallet"
ErrSmartWalletDeploymentFailed == "smart_wallet_deployment_failed"

(***************************************************************************)
(* Signatures as bytes                                                     *)
(*   wrap  : "none" - the last 32 bytes are not the ERC-6492 magic         *)
(*           "ok"   - magic suffix, prefix decodes as (address,bytes,bytes)*)
(*           "bad"  - magic suffix, prefix does not decode                 *)
(*   factory, cd : the encoded factory and factoryCalldata (wrap = "ok")   *)
(*   len, key, dig, v : the signature proper: its length in bytes, the key *)
(*           that produced r||s ("invalid" when r||s is no curve point),   *)
(*           the digest it was produced over, and its last byte            *)
(***************************************************************************)
MkSig(wrap, factory, cd, len, key, dig, v) ==
    [wrap |-> wrap, factory |-> factory, cd |-> cd,
     len |-> len, key |-> key, dig |-> dig, v |-> v]

\* the signature bytes a wrapped signature carries inside
InnerOf(sig) == MkSig("none", ZeroAddr, <<>>, sig.len, sig.key, sig.dig, sig.v)

\* erc6492.go IsERC6492Signature
IsERC6492Signature(sig) == sig.wrap # "none"

\* erc6492.go ParseERC6492Signature: [err, Factory, FactoryCalldata, InnerSignature]
ParseERC6492Signature(sig) ==
    IF ~IsERC6492Signature(sig)
    THEN [err |-> None, Factory |-> ZeroAddr, FactoryCalldata |-> <<>>,
          InnerSignature |-> sig]
    ELSE IF sig.wrap = "bad"
    THEN [err |-> "abi_unpack", Factory |-> ZeroAddr, FactoryCalldata |-> <<>>,
          InnerSignature |-> sig]
    ELSE [err |-> None, Factory |-> sig.factory, FactoryCalldata |-> sig.cd,
          InnerSignature |-> InnerOf(sig)]

\* crypto.SigToPub + PubkeyToAddress on r||s with recovery id rid:
\* the signing key's address when the digest and the recovery id are the
\* ones of the signing, another address otherwise, an error when r||s is
\* not a valid signature or rid is not 0 or 1
SigToAddr(hash, sig, rid) ==
    IF sig.key = "invalid" \/ rid \notin {0, 1} THEN [err |-> "recovery_failed", addr |-> ZeroAddr]
    ELSE IF sig.dig = hash /\ rid = 0 THEN [err |-> None, addr |-> sig.key]
    ELSE [err |-> None, addr |-> StrayAddr]

\* verify_eoa.go VerifyEOASignature handing the last byte to the recovery
\* as it came
VerifyEOASignatureNoAdjust(hash, signature, expectedAddress) ==
    IF signature.len # 65
    THEN [valid |-> FALSE, err |-> "invalid_eoa_signature_length", signature |-> signature]
    ELSE LET rec == SigToAddr(hash, signature, signature.v)
         IN IF rec.err # None
            THEN [valid |-> FALSE, err |-> rec.err, signature |-> signature]
            ELSE [valid |-> rec.addr = expectedAddress, err |-> None, signature |-> signature]

\* verify_eoa.go VerifyEOASignature: [valid, err], and the caller's
\* signature bytes after the call: the last byte is adjusted in a copy
\* (lines 36-44)
VerifyEOASignature(hash, signature, expectedAddress) ==
    IF signature.len # 65
    THEN [valid |-> FALSE, err |-> "invalid_eoa_signature_length", signature |-> signature]
    ELSE LET sig == signature
             v == sig.v
             rid == IF v >= 27 THEN v - 27 ELSE v
             rec == SigToAddr(hash, [sig EXCEPT !.v = rid], rid)
         IN IF rec.err # None
            THEN [valid |-> FALSE, err |-> rec.err, signature |-> signature]
            ELSE [valid |-> rec.addr = expectedAddress, err |-> None, signature |-> signature]

(***************************************************************************)
(* ERC-6492 envelopes byte by byte (erc6492.go)                            *)
(* A byte is a number 0..255, a byte string a sequence of bytes. The       *)
(* definitions above read a signature through its parts (wrap, factory,    *)
(* cd, ...); the ones here read the bytes themselves.                      *)
(***************************************************************************)
Zeros(n) == [i \in 1..n |-> 0]
Fill(n, b) == [i \in 1..n |-> b]

\* erc6492.go line 13: 0x6492 sixteen times
erc6492MagicBytes == [i \in 1..32 |-> IF i % 2 = 1 THEN 100 ELSE 146]

\* sig[from:to] of Go, both zero-based
Slice(sig, from, to) == SubSeq(sig, from + 1, to)

\* IsERC6492Signature testing for more than 32 bytes
BytesIsERC6492SignatureLonger(sig) ==
    IF Len(sig) <= 32 THEN FALSE
    ELSE Slice(sig, Len(sig) - 32, Len(sig)) = erc6492MagicBytes

\* erc6492.go lines 29-34, IsERC6492Signature
BytesIsERC6492Signature(sig) ==
    IF Len(sig) < 32 THEN FALSE
    ELSE Slice(sig, Len(sig) - 32, Len(sig)) = erc6492MagicBytes

\* a number that exceeds every length met here: the value of a 32-byte
\* word with a byte set above its lowest two
Huge == 256 * 256

\* the big-endian value of a 32-byte word (abi.Arguments.Unpack reads
\* offsets and lengths this way)
WordValue(w) ==
    IF \E i \in 1..30 : w[i] # 0 THEN Huge ELSE w[31] * 256 + w[32]

\* the 32-byte word of a number below 65536
Word(n) == [i \in 1..32 |-> IF i = 31 THEN n \div 256 ELSE IF i = 32 THEN n % 256 ELSE 0]

\* the length of b rounded up to whole words
PaddedLen(b) == ((Len(b) + 31) \div 32) * 32

\* abi.Arguments.Pack(factory, factoryCalldata, signature) for the types
\* (address, bytes, bytes): three head words, then each byte string as
\* its length and its bytes padded with zeros to whole words
AbiPack(factory, cd, inner) ==
    Zeros(12) \o factory \o Word(96) \o Word(96 + 32 + PaddedLen(cd))
    \o Word(Len(cd)) \o cd \o Zeros(PaddedLen(cd) - Len(cd))
    \o Word(Len(inner)) \o inner \o Zeros(PaddedLen(inner) - Len(inner))

\* abi: the byte string that the head word at index points to: the word
\* is an offset from the start of output, at the offset stands the
\* length, after it the bytes; both must lie inside output
UnpackBytes(output, index) ==
    IF index + 32 > Len(output) THEN [err |-> "length_insufficient", bytes |-> <<>>]
    ELSE LET offsetEnd == WordValue(Slice(output, index, index + 32)) + 32
         IN IF offsetEnd > Len(output) THEN [err |-> "offset_over_boundary", bytes |-> <<>>]
            ELSE LET length == WordValue(Slice(output, offsetEnd - 32, offsetEnd))
                 IN IF offsetEnd + length > Len(output)
                    THEN [err |-> "length_insufficient", bytes |-> <<>>]
                    ELSE [err |-> None, bytes |-> Slice(output, offsetEnd, offsetEnd + length)]

\* abi.Arguments.Unpack for (address, bytes, bytes): the address is the
\* last 20 bytes of the first word
AbiUnpack(data) ==
    LET cd == UnpackBytes(data, 32)
        inner == UnpackBytes(data, 64)
        failed(e) == [err |-> e, factory |-> Zeros(20), cd |-> <<>>, inner |-> <<>>]
    IN IF Len(data) = 0 THEN failed("empty")
       ELSE IF Len(data) < 32 THEN failed("length_insufficient")
       ELSE IF cd.err # None THEN failed(cd.err)
       ELSE IF inner.err # None THEN failed(inner.err)
       ELSE [err |-> None, factory |-> Slice(data, 12, 32), cd |-> cd.bytes,
             inner |-> inner.bytes]

\* ParseERC6492Signature stripping one byte less than the magic
BytesParseERC6492SignatureStrip31(sig) ==
    IF ~BytesIsERC6492Signature(sig)
    THEN [err |-> None, Factory |-> Zeros(20), FactoryCalldata |-> <<>>, InnerSignature |-> sig]
    ELSE LET unpacked == AbiUnpack(Slice(sig, 0, Len(sig) - 31))
         IN IF unpacked.err # None
            THEN [err |-> unpacked.err, Factory |-> Zeros(20), FactoryCalldata |-> <<>>,
                  InnerSignature |-> <<>>]
            ELSE [err |-> None, Factory |-> unpacked.factory,
                  FactoryCalldata |-> unpacked.cd, InnerSignature |-> unpacked.inner]

\* erc6492.go lines 53-114, ParseERC6492Signature: [err, Factory,
\* FactoryCalldata, InnerSignature]
BytesParseERC6492Signature(sig) ==
    IF ~BytesIsERC6492Signature(sig)
    THEN [err |-> None, Factory |-> Zeros(20), FactoryCalldata |-> <<>>, InnerSignature |-> sig]
    ELSE LET payload == Slice(sig, 0, Len(sig) - 32)
             unpacked == AbiUnpack(payload)
         IN IF unpacked.err # None
            THEN [err |-> unpacked.err, Factory |-> Zeros(20), FactoryCalldata |-> <<>>,
                  InnerSignature |-> <<>>]
            ELSE [err |-> None, Factory |-> unpacked.factory,
                  FactoryCalldata |-> unpacked.cd, InnerSignature |-> unpacked.inner]

(***************************************************************************)
(* Chain RPC outcomes seen by one call                                     *)
(*   GetCode      : "code" | "empty" | "rpc_error"                         *)
(*   ReadContract(isValidSignature) :                                      *)
(*       "magic" | "other4" | "short" | "badtype" : the value returned     *)
(*       "revert_data" | "revert_empty" : the call reverted, with or       *)
(*           without return data; the signer reports it as an error        *)
(*       "rpc_error" : the node could not be reached                       *)
(*   "context_canceled" : the request context was cancelled during the     *)
(*       call (ctx.Err()), reported by the signer as an error              *)
(***************************************************************************)
GetCodeResults == {"code", "empty", "rpc_error"}
ReadResults == {"magic", "other4", "short", "badtype", "revert_data", "revert_empty", "rpc_error"}

\* the outcomes in which the RPC itself failed (a system failure)
RPCFailures == {"rpc_error", "context_canceled"}

\* the outcomes of ReadContract that come back as err != nil
ReadErrors == RPCFailures \cup {"revert_data", "revert_empty"}

\* VerifyEIP1271Signature that takes any 4 returned bytes for the magic
VerifyEIP1271SignatureAnyBytes(readRes) ==
    IF readRes \in ReadErrors THEN [valid |-> FALSE, err |-> readRes]
    ELSE IF readRes = "badtype" THEN [valid |-> FALSE, err |-> "invalid_return_type"]
    ELSE IF readRes = "short" THEN [valid |-> FALSE, err |-> "too_short"]
    ELSE [valid |-> TRUE, err |-> None]

\* verify_1271.go VerifyEIP1271Signature: [valid, err]
VerifyEIP1271Signature(readRes) ==
    IF readRes \in ReadErrors THEN [valid |-> FALSE, err |-> readRes]
    ELSE IF readRes = "badtype" THEN [valid |-> FALSE, err |-> "invalid_return_type"]
    ELSE IF readRes = "short" THEN [valid |-> FALSE, err |-> "too_short"]
    ELSE [valid |-> readRes = "magic", err |-> None]

\* the fast-path test with the factory comparison inverted
IsEOASignatureInverted(sigData) ==
    sigData.InnerSignature.len = 65 /\ sigData.Factory # ZeroAddr

\* the fast-path test of VerifyUniversalSignature (step 2)
IsEOASignature(sigData) ==
    sigData.InnerSignature.len = 65 /\ sigData.Factory = ZeroAddr

\* the deployment-info test that looks at the factory alone
HasDeploymentInfoFactoryOnly(sigData) == sigData.Factory # ZeroAddr

\* the deployment-info test used by VerifyUniversalSignature and Settle
HasDeploymentInfo(sigData) ==
    sigData.Factory # ZeroAddr /\ Len(sigData.FactoryCalldata) > 0

\* the result of VerifyUniversalSignature: valid, whether sigData is
\* returned (non-nil), the error, and the chain RPCs made, in order
URes(valid, hasData, err, calls) ==
    [valid |-> valid, hasData |-> hasData, err |-> err, calls |-> calls]

\* step 5 without the allowUndeployed test
UndeployedWithInfoUnchecked(allowUndeployed) ==
    URes(TRUE, TRUE, None, <<"GetCode">>)

\* VerifyUniversalSignature, step 5 with deployment info: accept only when
\* allowUndeployed
UndeployedWithInfo(allowUndeployed) ==
    IF ~allowUndeployed
    THEN URes(FALSE, FALSE, ErrUndeployedSmartWallet, <<"GetCode">>)
    ELSE URes(TRUE, TRUE, None, <<"GetCode">>)

\* VerifyUniversalSignature accepting an undeployed signer without
\* deployment info instead of trying EOA recovery
VerifyUniversalSignatureSkipsFallback(getCodeRes, readRes, signerAddress, hash, signature, allowUndeployed) ==
    LET sigData == ParseERC6492Signature(signature)
    IN IF sigData.err # None THEN URes(FALSE, FALSE, sigData.err, <<>>)
       ELSE IF IsEOASignature(sigData)
       THEN LET r == VerifyEOASignature(hash, sigData.InnerSignature, HexToAddress(signerAddress))
            IN URes(r.valid, TRUE, r.err, <<>>)
       ELSE IF getCodeRes \in RPCFailures THEN URes(FALSE, FALSE, getCodeRes, <<"GetCode">>)
       ELSE IF getCodeRes = "empty"
       THEN IF HasDeploymentInfo(sigData)
            THEN UndeployedWithInfo(allowUndeployed)
            ELSE URes(TRUE, TRUE, None, <<"GetCode">>)
       ELSE LET r == VerifyEIP1271Signature(readRes)
            IN URes(r.valid, TRUE, r.err, <<"GetCode", "ReadContract">>)

\* VerifyUniversalSignature
VerifyUniversalSignature(getCodeRes, readRes, signerAddress, hash, signature, allowUndeployed) ==
    LET sigData == ParseERC6492Signature(signature)
    IN IF sigData.err # None THEN URes(FALSE, FALSE, sigData.err, <<>>)
       ELSE IF IsEOASignature(sigData)
       THEN LET r == VerifyEOASignature(hash, sigData.InnerSignature, HexToAddress(signerAddress))
            IN URes(r.valid, TRUE, r.err, <<>>)
       ELSE IF getCodeRes \in RPCFailures THEN URes(FALSE, FALSE, getCodeRes, <<"GetCode">>)
       ELSE IF getCodeRes = "empty"
       THEN IF HasDeploymentInfo(sigData)
            THEN UndeployedWithInfo(allowUndeployed)
            ELSE LET r == VerifyEOASignature(hash, sigData.InnerSignature, HexToAddress(signerAddress))
                 IN URes(r.valid, TRUE, r.err, <<"GetCode">>)
       ELSE LET r == VerifyEIP1271Signature(readRes)
            IN URes(r.valid, TRUE, r.err, <<"GetCode", "ReadContract">>)

(***************************************************************************)
(* Networks and assets (constants.go, utils.go)                            *)
(***************************************************************************)
FacilitatorContractAddress == "FAC"

\* an asset as configured or resolved
AssetInfo(addr, name, version, supports) ==
    [Address |-> addr, Name |-> name, Version |-> version, SupportsEIP3009 |-> supports]

\* utils.go GetNetworkConfig: aliases are normalised, then NetworkConfigs
GetNetworkConfig(network) ==
    LET n == IF network \in {"base", "base-mainnet"} THEN "eip155:8453"
             ELSE IF network = "base-sepolia" THEN "eip155:84532"
             ELSE network
    IN IF n = "eip155:8453"
       THEN [err |-> None, ChainID |-> 8453,
             DefaultAsset |-> AssetInfo(AddrStr("USDC_BASE", TRUE), "USD Coin", "2", TRUE)]
       ELSE IF n = "eip155:84532"
       THEN [err |-> None, ChainID |-> 84532,
             DefaultAsset |-> AssetInfo(AddrStr("USDC_SEPOLIA", TRUE), "USDC", "2", TRUE)]
       ELSE [err |-> "unsupported_network", ChainID |-> 0,
             DefaultAsset |-> AssetInfo(AddrStr(ZeroAddr, FALSE), "", "", FALSE)]

\* types.go IsValidNetwork
IsValidNetwork(network) ==
    network \in {"eip155:1", "eip155:8453", "eip155:84532", "base", "base-sepolia", "base-mainnet"}

\* an asset string of the requirements: a 40-hex address (form "addr") or
\* any other text, such as a symbol (form "text")
AssetStr(form, a, up) == [form |-> form, a |-> a, up |-> up]

\* utils.go IsValidAddress
IsValidAddress(asset) == asset.form = "addr"

\* utils.go NormalizeAddress: lower-cased
NormalizeAddress(s) == AddrStr(s.a, FALSE)

\* utils.go GetAssetInfo, for a network that resolved: the default asset
\* for its own address, for a known symbol and for any other text; an
\* "Unknown Token" for another address
GetAssetInfo(config, asset) ==
    IF IsValidAddress(asset)
    THEN IF NormalizeAddress(asset) = NormalizeAddress(config.DefaultAsset.Address)
         THEN config.DefaultAsset
         ELSE AssetInfo(NormalizeAddress(asset), "Unknown Token", "1", FALSE)
    ELSE config.DefaultAsset

(***************************************************************************)
(* Decimal strings (math/big SetString, String)                            *)
(*   ok : whether the string parses in base 10; n : its value;             *)
(*   canon : whether it is the canonical rendering of n                    *)
(***************************************************************************)
DecStr(ok, n, canon) == [ok |-> ok, n |-> n, canon |-> canon]

\* big.Int.String
BigString(n) == DecStr(TRUE, n, TRUE)

(***************************************************************************)
(* EIP-712 digests: the hashed content                                     *)
(***************************************************************************)
Digest(primary, name, version, chainId, vc, token, from, to, value, va, vb, nonce, needApprove) ==
    [primary |-> primary, name |-> name, version |-> version, chainId |-> chainId,
     vc |-> vc, token |-> token, from |-> from, to |-> to, value |-> value,
     validAfter |-> va, validBefore |-> vb, nonce |-> nonce, needApprove |-> needApprove]

\* eip712.go HashEIP3009Authorization
HashEIP3009Authorization(auth, chainID, verifyingContract, tokenName, tokenVersion) ==
    Digest("TransferWithAuthorization", tokenName, tokenVersion, chainID,
           HexToAddress(verifyingContract), None,
           HexToAddress(auth.From), HexToAddress(auth.To), auth.Value.n,
           auth.ValidAfter, auth.ValidBefore, auth.Nonce, FALSE)

\* HashERC20Authorization: the tokenTransferWithAuthorization struct under
\* the domain ("Facilitator", "1", chainId, facilitator contract)
HashERC20Authorization(auth, chainID, verifyingContract) ==
    Digest("tokenTransferWithAuthorization", "Facilitator", "1", chainID,
           verifyingContract, HexToAddress(auth.Token),
           HexToAddress(auth.From), HexToAddress(auth.To), auth.Value.n,
           auth.ValidAfter, auth.ValidBefore, auth.Nonce, auth.NeedApprove)

(***************************************************************************)
(* Capability probe (utils.go VerifyEIP3009Support)                        *)
(*   cached : "absent" | "yes" | "no", the cache entry of the key          *)
(*   probe  : the outcome of the simulated transferWithAuthorization:      *)
(*            "ok" (no error), "err_keyword" (an error whose message       *)
(*            contains signature, authorization or nonce), "err_other"     *)
(*            (a revert with another message), or an RPC failure, whose    *)
(*            message ("connection refused", "context canceled") holds     *)
(*            none of the three words                                      *)
(* Result: the answer, the RPCs made and the value stored in the cache     *)
(* ("absent" when nothing is stored). It never returns an error.           *)
(***************************************************************************)
ProbeResults == {"ok", "err_keyword", "err_other"}

\* err.Error() of a failed ReadContract, word by word: the reverts of
\* token contracts and the failures of the RPC itself
ErrorString(probe) ==
    CASE probe = "err_keyword" -> <<"FiatTokenV2:", "invalid", "signature">>
      [] probe = "err_upper" -> <<"INVALID", "SIGNATURE">>
      [] probe = "err_auth" -> <<"FiatTokenV2:", "authorization", "is", "expired">>
      [] probe = "err_nonce" -> <<"Nonce", "already", "used">>
      [] probe = "err_plural" -> <<"signatures", "mismatch">>
      [] probe = "err_unauthorized" -> <<"caller", "unauthorized">>
      [] probe = "err_other" -> <<"execution", "reverted">>
      [] probe = "rpc_error" -> <<"connection", "refused">>
      [] probe = "context_canceled" -> <<"context", "canceled">>

\* strings.ToLower, on the words above
ToLower(word) ==
    CASE word = "FiatTokenV2:" -> "fiattokenv2:"
      [] word = "INVALID" -> "invalid"
      [] word = "SIGNATURE" -> "signature"
      [] word = "Nonce" -> "nonce"
      [] OTHER -> word

\* strings.Contains(errStr, substr) for a one-word substr: a word of the
\* message is it or holds it
Contains(errStr, substr) ==
    \E i \in DOMAIN errStr : errStr[i] = substr \/ (errStr[i] = "signatures" /\ substr = "signature")

\* utils.go lines 286-300 without strings.ToLower
IsSupportedErrorCaseSensitive(errStr) ==
    \/ Contains(errStr, "signature")
    \/ Contains(errStr, "authorization")
    \/ Contains(errStr, "nonce")

\* utils.go lines 286-300: the failures that show the function exists
IsSupportedError(errStr) ==
    LET lower == [i \in DOMAIN errStr |-> ToLower(errStr[i])]
    IN \/ Contains(lower, "signature")
       \/ Contains(lower, "authorization")
       \/ Contains(lower, "nonce")

\* VerifyEIP3009Support handing a failed RPC back to its caller: nothing
\* is stored
VerifyEIP3009SupportNoStoreOnFailure(cached, probe) ==
    IF cached # "absent"
    THEN [supported |-> cached = "yes", calls |-> <<>>, store |-> "absent"]
    ELSE LET supported == probe = "ok" \/ IsSupportedError(ErrorString(probe))
         IN [supported |-> supported, calls |-> <<"ReadContract">>,
             store |-> IF probe \in RPCFailures THEN "absent"
                       ELSE IF supported THEN "yes" ELSE "no"]

\* utils.go lines 221-306: a cached answer is returned at once; otherwise
\* the outcome of the simulated call is classified, stored and returned,
\* with a nil error on every path
VerifyEIP3009Support(cached, probe) ==
    IF cached # "absent"
    THEN [supported |-> cached = "yes", calls |-> <<>>, store |-> "absent"]
    ELSE LET supported == probe = "ok" \/ IsSupportedError(ErrorString(probe))
         IN [supported |-> supported, calls |-> <<"ReadContract">>,
             store |-> IF supported THEN "yes" ELSE "no"]

(***************************************************************************)
(* Payment requirements and payloads (types)                               *)
(***************************************************************************)
\* the empty string in a payer position
NoPayer == AddrStr("", FALSE)

\* the hex string of a signature: "" (form "empty"), a string that is not
\* hex (form "badhex") or the hex of the bytes sig (form "hex")
SigStr(form, sig) == [form |-> form, sig |-> sig]

\* utils.go HexToBytes on a signature string
HexToBytes(s) == [err |-> IF s.form = "badhex" THEN "invalid_hex" ELSE None, bytes |-> s.sig]

\* the result of Verify: a VerifyResponse (err = FALSE) or a VerifyError
\* (err = TRUE, with Reason, Payer, Network), and this call's chain RPCs
\* and cache store
VRes(err, reason, payer, network, calls, store) ==
    [err |-> err, isValid |-> ~err, reason |-> reason, payer |-> payer,
     network |-> network, calls |-> calls, store |-> store]

VerifyError(reason, payer, network, calls, store) ==
    VRes(TRUE, reason, payer, network, calls, store)

\* the domain name taken from the asset table alone
TokenNameOfAsset(assetInfo, extra) == assetInfo.Name

\* requirements.Extra["name"] / ["version"] over the asset's own
TokenName(assetInfo, extra) == IF extra.name # None THEN extra.name ELSE assetInfo.Name
TokenVersion(assetInfo, extra) == IF extra.version # None THEN extra.version ELSE assetInfo.Version

\* the key that controls a smart wallet
Owner(wallet) == "K1"

\* ReadContract(isValidSignature(hash, inner)) on a deployed wallet whose
\* contract accepts its owner's signature over the hash, of any length;
\* env.read is the failure when the call itself fails
IsValidSignatureCall(env, wallet, hash, signature) ==
    LET inner == ParseERC6492Signature(signature).InnerSignature
    IN IF env.read \in RPCFailures THEN env.read
       ELSE IF inner.key = Owner(HexToAddress(wallet)) /\ inner.dig = hash THEN "magic"
       ELSE "other4"

\* facilitator/scheme.go verifySignature (the EIP-3009 branch):
\* universal verification with allowUndeployed = true, then a second
\* GetCode when the envelope names a factory
verifySignature(env, auth, signature, chainID, verifyingContract, tokenName, tokenVersion) ==
    LET hash == HashEIP3009Authorization(auth, chainID, verifyingContract, tokenName, tokenVersion)
        u == VerifyUniversalSignature(env.getCode, IsValidSignatureCall(env, auth.From, hash, signature),
                                      auth.From, hash, signature, TRUE)
        again == u.hasData /\ ParseERC6492Signature(signature).Factory # ZeroAddr
    IN IF u.err # None THEN [valid |-> FALSE, err |-> u.err, calls |-> u.calls]
       ELSE IF again /\ env.getCode2 \in RPCFailures
       THEN [valid |-> FALSE, err |-> env.getCode2, calls |-> u.calls \o <<"GetCode">>]
       ELSE [valid |-> u.valid, err |-> None,
             calls |-> IF again THEN u.calls \o <<"GetCode">> ELSE u.calls]

\* facilitator/scheme.go Verify, lines 186-235: the signature check of the
\* chosen flow
VerifyFlow(env, isEIP3009, payload, requirements, config, assetInfo, sigBytes, calls, store) ==
    LET auth == payload.auth
        network == requirements.network
        r == IF isEIP3009
             THEN verifySignature(env, auth, sigBytes, config.ChainID, assetInfo.Address,
                                  TokenName(assetInfo, requirements.extra),
                                  TokenVersion(assetInfo, requirements.extra))
             ELSE LET hash == HashERC20Authorization(auth, config.ChainID, FacilitatorContractAddress)
                      u == VerifyUniversalSignature(env.getCode,
                                                    IsValidSignatureCall(env, auth.From, hash, sigBytes),
                                                    auth.From, hash, sigBytes, TRUE)
                  IN [valid |-> u.valid, err |-> u.err, calls |-> u.calls]
    IN IF r.err # None
       THEN VerifyError("failed_to_verify_signature", auth.From, network, calls \o r.calls, store)
       ELSE IF ~r.valid
       THEN VerifyError("invalid_signature", auth.From, network, calls \o r.calls, store)
       ELSE VRes(FALSE, None, auth.From, network, calls \o r.calls, store)

\* the flow choice that asks the capability probe whatever the type
VerifyTypeProbeAlways(env, cached, payload, requirements, config, assetInfo) ==
    LET network == requirements.network
        typed == payload.type # None
        probe == VerifyEIP3009Support(cached, env.probe)
        calls == probe.calls
        store == probe.store
        isEIP3009 == probe.supported
        sig == HexToBytes(payload.signature)
    IN IF typed /\ payload.type \notin {"authorizationEip3009", "authorization"}
       THEN VerifyError("invalid_payload_type", NoPayer, network, <<>>, "absent")
       ELSE IF sig.err # None
       THEN VerifyError("invalid_signature_format", payload.auth.From, network, calls, store)
       ELSE VerifyFlow(env, isEIP3009, payload, requirements, config, assetInfo, sig.bytes, calls, store)

\* facilitator/scheme.go Verify, lines 153-184: the flow is chosen from
\* payload.type, or by the capability probe when type is no string
VerifyType(env, cached, payload, requirements, config, assetInfo) ==
    LET network == requirements.network
        typed == payload.type # None
        probe == VerifyEIP3009Support(cached, env.probe)
        calls == IF typed THEN <<>> ELSE probe.calls
        store == IF typed THEN "absent" ELSE probe.store
        isEIP3009 == IF typed THEN payload.type = "authorizationEip3009" ELSE probe.supported
        sig == HexToBytes(payload.signature)
    IN IF typed /\ payload.type \notin {"authorizationEip3009", "authorization"}
       THEN VerifyError("invalid_payload_type", NoPayer, network, <<>>, "absent")
       ELSE IF sig.err # None
       THEN VerifyError("invalid_signature_format", payload.auth.From, network, calls, store)
       ELSE VerifyFlow(env, isEIP3009, payload, requirements, config, assetInfo, sig.bytes, calls, store)

\* the amount check with <= for <
AmountCheckOffByOne(authValue, requiredValue) ==
    IF ~authValue.ok THEN "invalid_authorization_value"
    ELSE IF ~requiredValue.ok THEN "invalid_required_amount"
    ELSE IF authValue.n <= requiredValue.n THEN "insufficient_amount"
    ELSE None

\* facilitator/scheme.go Verify, lines 120-134: value against the amount
AmountCheck(authValue, requiredValue) ==
    IF ~authValue.ok THEN "invalid_authorization_value"
    ELSE IF ~requiredValue.ok THEN "invalid_required_amount"
    ELSE IF authValue.n < requiredValue.n THEN "insufficient_amount"
    ELSE None

\* Verify with the network compared before the scheme
VerifyNetworkFirst(env, cached, payload, requirements) ==
    LET network == requirements.network
        config == GetNetworkConfig(requirements.network)
        assetInfo == GetAssetInfo(config, requirements.asset)
        amount == AmountCheck(payload.auth.Value, requirements.amount)
    IN IF payload.accepted.network # requirements.network
       THEN VerifyError("network_mismatch", NoPayer, network, <<>>, "absent")
       ELSE IF payload.accepted.scheme # SchemeExact
       THEN VerifyError("invalid_scheme", NoPayer, network, <<>>, "absent")
       ELSE IF config.err # None
       THEN VerifyError("failed_to_get_network_config", NoPayer, network, <<>>, "absent")
       ELSE IF payload.signature.form = "empty"
       THEN VerifyError("missing_signature", NoPayer, network, <<>>, "absent")
       ELSE IF ~EqualFold(payload.auth.To, requirements.payTo)
       THEN VerifyError("recipient_mismatch", NoPayer, network, <<>>, "absent")
       ELSE IF amount = "insufficient_amount"
       THEN VerifyError(amount, payload.auth.From, network, <<>>, "absent")
       ELSE IF amount # None
       THEN VerifyError(amount, NoPayer, network, <<>>, "absent")
       ELSE VerifyType(env, cached, payload, requirements, config, assetInfo)

\* facilitator/scheme.go Verify
\*   env    : the outcomes of this call's chain RPCs
\*   cached : the capability-cache entry of (chainId, asset address)
Verify(env, cached, payload, requirements) ==
    LET network == requirements.network
        config == GetNetworkConfig(requirements.network)
        assetInfo == GetAssetInfo(config, requirements.asset)
        amount == AmountCheck(payload.auth.Value, requirements.amount)
    IN IF payload.accepted.scheme # SchemeExact
       THEN VerifyError("invalid_scheme", NoPayer, network, <<>>, "absent")
       ELSE IF payload.accepted.network # requirements.network
       THEN VerifyError("network_mismatch", NoPayer, network, <<>>, "absent")
       ELSE IF config.err # None
       THEN VerifyError("failed_to_get_network_config", NoPayer, network, <<>>, "absent")
       ELSE IF payload.signature.form = "empty"
       THEN VerifyError("missing_signature", NoPayer, network, <<>>, "absent")
       ELSE IF ~EqualFold(payload.auth.To, requirements.payTo)
       THEN VerifyError("recipient_mismatch", NoPayer, network, <<>>, "absent")
       ELSE IF amount = "insufficient_amount"
       THEN VerifyError(amount, payload.auth.From, network, <<>>, "absent")
       ELSE IF amount # None
       THEN VerifyError(amount, NoPayer, network, <<>>, "absent")
       ELSE VerifyType(env, cached, payload, requirements, config, assetInfo)

\* the capability-cache key of a Verify call: chain id and lower-cased
\* asset address (utils.go line 223)
CacheKey(chainID, tokenAddress) == <<chainID, tokenAddress.a>>

(***************************************************************************)
(* Bounds of the verifier harness                                          *)
(***************************************************************************)
\* number of distinct digests
NumHashes == 2
\* longest non-EOA signature, in bytes over 65
MaxExtraLen == 1

Hashes == 1..NumHashes
SigLens == 64..(65 + MaxExtraLen)
VBytes == {0, 27, 28}

InnerSigs ==
    {MkSig("none", ZeroAddr, <<>>, l, k, d, v) :
        l \in SigLens, k \in KeyAddrs \cup {"invalid"}, d \in Hashes, v \in VBytes}

WrappedSigs ==
    {MkSig("ok", f, cd, s.len, s.key, s.dig, s.v) :
        f \in {ZeroAddr} \cup FactoryAddrs, cd \in {<<>>, <<1>>}, s \in InnerSigs}

MalformedSigs == {MkSig("bad", ZeroAddr, <<>>, 65, "K1", 1, 27)}

AllSigs == InnerSigs \cup WrappedSigs \cup MalformedSigs

VARIABLES
    uIn,        \* verifier harness: the arguments and RPC outcomes of one call
    uOut,       \* verifier harness: <<its result>>, empty before the call
    bIn,        \* signature-function harness: the function called and its arguments
    bOut,       \* signature-function harness: <<its result>>, empty before the call
    req,        \* the payment requirements of the request
    pay,        \* the payment payload of the request
    cfgDeploy,  \* ExactEvmSchemeConfig.DeployERC4337WithEIP6492
    ctx,        \* the request's context: "background" (never cancelled) or "cancellable"
    code,       \* chain: the addresses that have bytecode
    now,        \* chain and wall clock, in seconds
    txLog,      \* chain: the transactions the facilitator signer has sent
    cache,      \* EIP3009SupportCache of the facilitator process
    fac,        \* the facilitator worker: where it is in Verify / Settle
    vres,       \* <<result of the last Verify call, time it returned, system failure it met>>
    sres,       \* <<result of the last Settle call>>
    cli,        \* the paying client: its signer and where it is in CreatePaymentPayload
    cres,       \* <<result of the client scheme's CreatePaymentPayload>>
    allow,      \* chain: the token allowance of the client for the facilitator contract
    con,        \* Facilitator contract: _authorizationStates, paused, isOperator
    tok,        \* ERC-20 tokens: balanceOf and allowance (for the contract) of each holder
    xfer,       \* per (token, from, nonce): transfers made by the contract's ERC-20 path
    call,       \* the last call to the contract, with what it met and how it ended
    prober,     \* concurrent callers of VerifyEIP3009Support: where each is in its call
    returned,   \* per cache key: the answers VerifyEIP3009Support has returned so far
    tokenSays,  \* per token: how its contract answers the simulated call
    srv,        \* resource server: the request it serves and how far it has come
    poll,       \* a caller of WaitForTransactionReceipt: where it is in the polling loop
    wrk         \* concurrent Settle calls: where each is between GetCode and settlePayment

varsU == <<uIn, uOut, bIn, bOut>>
varsReq == <<req, pay, cfgDeploy, ctx>>
varsChain == <<code, now, txLog>>
varsFac == <<cache, fac, vres, sres>>
varsCli == <<cli, cres, allow>>
varsCon == <<con, tok, xfer, call>>
varsProbe == <<prober, returned, tokenSays>>
varsExt == <<srv, poll, wrk>>
vars == <<uIn, uOut, bIn, bOut, req, pay, cfgDeploy, ctx, code, now, txLog, cache, fac, vres, sres,
          cli, cres, allow, con, tok, xfer, call, prober, returned, tokenSays, srv, poll, wrk>>

\* no request at the resource server, no receipt awaited, no concurrent
\* Settle calls
IdleExt == srv = <<>> /\ poll = <<>> /\ wrk = <<>>

(***************************************************************************)
(* Verifier harness                                                        *)
(***************************************************************************)
UInputs ==
    [signerAddress : {AddrStr(a, up) : a \in {"K1", "W1"}, up \in BOOLEAN},
     hash : Hashes,
     signature : AllSigs,
     allowUndeployed : BOOLEAN,
     getCode : GetCodeResults,
     read : ReadResults]

\* the harness at rest
IdleU == uIn = None /\ uOut = <<>> /\ bIn = None /\ bOut = <<>>

\* one call of VerifyUniversalSignature
UVerify ==
    /\ uOut = <<>>
    /\ uOut' = <<VerifyUniversalSignature(uIn.getCode, uIn.read, uIn.signerAddress,
                                          uIn.hash, uIn.signature, uIn.allowUndeployed)>>
    /\ UNCHANGED <<uIn, bIn, bOut, varsReq, varsChain, varsFac, varsCli, varsCon, varsProbe, varsExt>>

(***************************************************************************)
(* Requests to the facilitator                                             *)
(***************************************************************************)
\* bounds
\* the required amount, in the token's smallest unit
Required == 2
\* last second of the clock
MaxTime == 2
\* Verify / Settle calls served in one behaviour
MaxOps == 2

Extra(name, version) == [name |-> name, version |-> version]

Requirements(scheme, network, asset, amount, payTo, extra) ==
    [scheme |-> scheme, network |-> network, asset |-> asset, amount |-> amount,
     payTo |-> payTo, extra |-> extra]

Authorization(from, to, value, va, vb, nonce, token, needApprove) ==
    [From |-> from, To |-> to, Value |-> value, ValidAfter |-> va, ValidBefore |-> vb,
     Nonce |-> nonce, Token |-> token, NeedApprove |-> needApprove]

Payload(accepted, type, auth, signature) ==
    [accepted |-> accepted, type |-> type, auth |-> auth, signature |-> signature]

\* the zero PaymentPayload: nothing has been presented
NoPayload ==
    Payload([scheme |-> "", network |-> ""], None,
            Authorization(NoPayer, NoPayer, DecStr(FALSE, 0, FALSE), 0, 0, "",
                          AddrStr(ZeroAddr, FALSE), FALSE),
            SigStr("empty", MkSig("none", ZeroAddr, <<>>, 0, "invalid", 1, 0)))

\* the requirements served by the protected route
RouteReq ==
    Requirements(SchemeExact, "eip155:8453", AssetStr("text", "USDC", FALSE),
                 DecStr(TRUE, Required, TRUE), AddrStr("P1", FALSE), Extra(None, None))

\* an authorization as presented in a payload (no token echoed): the
\* payer, the recipient in upper case, the value and the start of the
\* window [validAfter, 1]
PresentedAuth(from, to, value, va) ==
    Authorization(AddrStr(from, FALSE), AddrStr(to, TRUE), value, va, 1, "n1",
                  AddrStr(ZeroAddr, FALSE), FALSE)

\* the values presented: below, at and above the required amount, and a
\* string that is no number
PresentedValues ==
    {DecStr(TRUE, Required - 1, TRUE), DecStr(TRUE, Required, TRUE),
     DecStr(TRUE, Required + 1, TRUE), DecStr(FALSE, 0, FALSE)}

\* the EIP-3009 and ERC-20 digests the facilitator computes for a payload
\* carrying auth against requirements r
Digest3009(auth, r) ==
    LET config == GetNetworkConfig(r.network)
        assetInfo == GetAssetInfo(config, r.asset)
    IN HashEIP3009Authorization(auth, config.ChainID, assetInfo.Address,
                                TokenName(assetInfo, r.extra), TokenVersion(assetInfo, r.extra))

DigestERC20(auth, r) ==
    HashERC20Authorization(auth, GetNetworkConfig(r.network).ChainID, FacilitatorContractAddress)

\* an EOA signature by key k over digest d
EOASig(k, d) == SigStr("hex", MkSig("none", ZeroAddr, <<>>, 65, k, d, 27))

\* the signatures presented with auth: none, no hex, a malformed ERC-6492
\* wrapper; 65-byte signatures by either key over either digest; a longer
\* smart-wallet signature; ERC-6492 wrappers with and without factory and
\* calldata around inner signatures of 65 and 66 bytes
PresentedSigs(auth, r) ==
    LET d3 == Digest3009(auth, r)
        dE == DigestERC20(auth, r)
    IN {SigStr("empty", MkSig("none", ZeroAddr, <<>>, 0, "invalid", d3, 0)),
        SigStr("badhex", MkSig("none", ZeroAddr, <<>>, 0, "invalid", d3, 0)),
        SigStr("hex", MkSig("bad", ZeroAddr, <<>>, 65, "K1", d3, 27))}
       \cup {EOASig(k, d) : k \in KeyAddrs, d \in {d3, dE}}
       \cup {SigStr("hex", MkSig("none", ZeroAddr, <<>>, 66, "K1", d, 27)) : d \in {d3, dE}}
       \cup {SigStr("hex", MkSig("ok", "F1", <<1>>, l, k, d3, 27)) : l \in {65, 66}, k \in KeyAddrs}
       \cup {SigStr("hex", MkSig("ok", "F1", <<>>, 65, "K1", d3, 27)),
             SigStr("hex", MkSig("ok", ZeroAddr, <<1>>, 66, "K1", d3, 27))}

AcceptedOf(r) == [scheme |-> r.scheme, network |-> r.network]

\* payloads that differ in what Verify checks before the signature:
\* accepted scheme and network, recipient, value, presence of a signature
EarlyPayloads(r) ==
    UNION {{Payload(acc, "authorizationEip3009", auth, sig) :
               acc \in {AcceptedOf(r), [scheme |-> "upto", network |-> r.network],
                        [scheme |-> SchemeExact, network |-> "eip155:84532"],
                        [scheme |-> "upto", network |-> "eip155:84532"]},
               sig \in {EOASig("K1", Digest3009(auth, r)),
                        SigStr("empty", MkSig("none", ZeroAddr, <<>>, 0, "invalid",
                                              Digest3009(auth, r), 0))}} :
           auth \in {PresentedAuth("K1", to, value, va) :
                        to \in {"P1", "P2"}, value \in PresentedValues, va \in {0, 1}}}

\* payloads that pass those checks and differ in type, payer and signature
SignedPayloads(r) ==
    UNION {{Payload(AcceptedOf(r), type, auth, sig) :
               type \in {"authorizationEip3009", "authorization", "other", None},
               sig \in PresentedSigs(auth, r)} :
           auth \in {PresentedAuth(from, "P1", value, va) :
                        from \in {"K1", "W1"}, value \in {DecStr(TRUE, Required, TRUE)},
                        va \in {0}}}

\* the payloads presented against requirements r
PresentedPayloads(r) == EarlyPayloads(r) \cup SignedPayloads(r)

(***************************************************************************)
(* The chain as the facilitator signer sees it                             *)
(***************************************************************************)
\* a transaction sent by the facilitator signer; its hash is its index in
\* txLog. status: -1 while pending, then the receipt status.
\* op, call, verified, saw: the call that sent it (kind and number),
\* whether that call's Verify had succeeded and what its GetCode returned
Tx(kind, args, by) ==
    [kind |-> kind, args |-> args, status |-> -1, op |-> by.op, call |-> by.n,
     verified |-> by.verified, saw |-> by.saw]

\* the system failures an RPC made under the request's context can meet:
\* context.Background() is never cancelled
Failures == IF ctx = "background" THEN {"rpc_error"} ELSE RPCFailures

\* GetCode(addr): the code state, or an RPC failure
GetCodeOutcomes(addr) ==
    {IF HexToAddress(addr) \in code THEN "code" ELSE "empty"} \cup Failures

\* the simulated transferWithAuthorization on a token: USDC reverts with
\* an invalid-signature message, any other token has no such function
TokenProbe(token) ==
    IF token.a \in {"USDC_BASE", "USDC_SEPOLIA"} THEN "err_keyword" ELSE "err_other"

\* a cancelled context stays cancelled: every RPC after the one that met
\* the cancellation meets it too (in the order probe, GetCode,
\* isValidSignature, second GetCode)
CtxStaysCancelled(env) ==
    /\ env.probe = "context_canceled" => env.getCode = "context_canceled"
    /\ env.getCode = "context_canceled" => env.read = "context_canceled"
    /\ env.read = "context_canceled" => env.getCode2 = "context_canceled"

\* the RPC outcomes one Verify call can meet
VerifyEnvs(p, r) ==
    LET assetInfo == GetAssetInfo(GetNetworkConfig(r.network), r.asset)
    IN {env \in [probe : {TokenProbe(assetInfo.Address), "err_other"} \cup Failures,
                 getCode : GetCodeOutcomes(p.auth.From),
                 read : {"call"} \cup Failures,
                 getCode2 : GetCodeOutcomes(p.auth.From)] : CtxStaysCancelled(env)}

\* the outcomes a Verify call consumed, given the RPCs it made (calls):
\* the probe's ReadContract comes first when it is made, then GetCode,
\* then isValidSignature and the second GetCode
Consumed(env, calls) ==
    LET probed == Len(calls) > 0 /\ calls[1] = "ReadContract"
        rest == IF probed THEN Tail(calls) ELSE calls
    IN [probe |-> probed,
        getCode |-> Len(rest) >= 1,
        read |-> Len(rest) >= 2 /\ rest[2] = "ReadContract",
        getCode2 |-> Len(rest) >= 2 /\ rest[Len(rest)] = "GetCode"]

\* the system failure a Verify call met
Met(env, calls) ==
    LET c == Consumed(env, calls)
        seen == (IF c.probe THEN {env.probe} ELSE {})
                \cup (IF c.getCode THEN {env.getCode} ELSE {})
                \cup (IF c.read THEN {env.read} ELSE {})
                \cup (IF c.getCode2 THEN {env.getCode2} ELSE {})
    IN IF "context_canceled" \in seen THEN "context_canceled"
       ELSE IF "rpc_error" \in seen THEN "rpc_error"
       ELSE None

\* an RPC that the call does not make has no outcome: of the
\* environments that differ only there, one stands for all (no failure
\* there, or the cancellation that an earlier RPC of the call met)
OnlyMadeRPCsFail(env, calls) ==
    LET c == Consumed(env, calls)
        cc == "context_canceled"
        assetInfo == GetAssetInfo(GetNetworkConfig(req.network), req.asset)
    IN /\ ~c.probe => env.probe = TokenProbe(assetInfo.Address)
       /\ ~c.getCode => env.getCode \notin (IF env.probe = cc THEN {"rpc_error"} ELSE RPCFailures)
       /\ ~c.read => env.read \notin (IF env.getCode = cc THEN {"rpc_error"} ELSE RPCFailures)
       /\ ~c.getCode2 => env.getCode2 \notin (IF env.read = cc THEN {"rpc_error"} ELSE RPCFailures)

CacheKeys == {8453, 84532} \X {"USDC_BASE", "USDC_SEPOLIA", "T1", "T2"}

\* the cache entry read by a Verify call, "absent" when the network does
\* not resolve
Cached(r) ==
    LET config == GetNetworkConfig(r.network)
        assetInfo == GetAssetInfo(config, r.asset)
    IN IF config.err # None THEN "absent"
       ELSE cache[CacheKey(config.ChainID, assetInfo.Address)]

\* EIP3009SupportCache.Store of a Verify call
CacheAfter(r, store) ==
    LET config == GetNetworkConfig(r.network)
        assetInfo == GetAssetInfo(config, r.asset)
    IN IF store = "absent" THEN cache
       ELSE [cache EXCEPT ![CacheKey(config.ChainID, assetInfo.Address)] = store]

(***************************************************************************)
(* The facilitator worker                                                  *)
(***************************************************************************)
\* fac.pc: "idle", or the suspension point Settle is at
\* fac.op: the call being served ("verify" | "settle"), fac.n: calls begun
\* fac.verified: whether the Verify that Settle re-ran succeeded
\* fac.payer: verifyResp.Payer; fac.tx: the hash being waited for
\* fac.saw: what Settle's GetCode returned
\* fac.met: the system failure that ended Settle after its Verify
FacIdle == [pc |-> "idle", op |-> None, n |-> 0, verified |-> FALSE,
            payer |-> NoPayer, tx |-> 0, saw |-> None, met |-> None]

\* the result of Settle: a SettleResponse (err = FALSE) or a SettleError
SRes(err, reason, payer, network, transaction) ==
    [err |-> err, success |-> ~err, reason |-> reason, payer |-> payer,
     network |-> network, transaction |-> transaction]

SettleError(reason, payer, network, transaction) ==
    SRes(TRUE, reason, payer, network, transaction)

\* Settle returns: the worker is idle again
Return(res) ==
    /\ sres' = <<res>>
    /\ fac' = [fac EXCEPT !.pc = "idle"]

\* Settle returns after an RPC of its own failed: m is the system failure
\* met, None when the node answered with an error of its own
ReturnMet(res, m) ==
    /\ sres' = <<res>>
    /\ fac' = [fac EXCEPT !.pc = "idle", !.met = m]

\* the context of the request being settled was cancelled during its Verify
CtxCancelled == vres # <<>> /\ vres[3] = "context_canceled"

\* the ways an RPC of Settle can fail: under a cancelled context only by
\* the cancellation
StepFailures == IF CtxCancelled THEN {"context_canceled"} ELSE Failures \cup {None}

\* POST /verify: one call of Verify
FVerify ==
    /\ pay.accepted # NoPayload.accepted
    /\ fac.pc = "idle" /\ fac.n < MaxOps
    /\ \E env \in VerifyEnvs(pay, req) :
         LET v == Verify(env, Cached(req), pay, req)
         IN /\ OnlyMadeRPCsFail(env, v.calls)
            /\ vres' = <<v, now, Met(env, v.calls)>>
            /\ cache' = CacheAfter(req, v.store)
    /\ fac' = [fac EXCEPT !.op = "verify", !.n = @ + 1, !.verified = FALSE,
                          !.payer = NoPayer, !.tx = 0, !.saw = None, !.met = None]
    /\ UNCHANGED <<sres, varsU, varsReq, varsChain, varsCli, varsCon, varsProbe, varsExt>>

\* the conversion that keeps the reason and drops the payer
ConvertVerifyErrorNoPayer(v) == SettleError(v.reason, NoPayer, v.network, 0)

\* Settle, lines 258-262: a VerifyError becomes a SettleError with its
\* Reason, Payer and Network and the empty transaction hash (0: no hash)
ConvertVerifyError(v) == SettleError(v.reason, v.payer, v.network, 0)

\* Settle that goes on after a failed Verify
SettleVerifiedUnchecked(v) ==
    LET sigData == ParseERC6492Signature(HexToBytes(pay.signature).bytes)
    IN /\ sres' = <<>>
       /\ fac' = [fac EXCEPT !.op = "settle", !.n = @ + 1, !.verified = ~v.err,
                             !.payer = v.payer, !.tx = 0, !.saw = None, !.met = None,
                             !.pc = IF HasDeploymentInfo(sigData) THEN "getcode" ELSE "write"]

\* Settle, lines 253-293: re-run Verify, convert its error, parse the
\* envelope and decide whether the deployment check is needed
SettleVerified(v) ==
    LET sigData == ParseERC6492Signature(HexToBytes(pay.signature).bytes)
    IN IF v.err
       THEN /\ sres' = <<ConvertVerifyError(v)>>
            /\ fac' = [fac EXCEPT !.op = "settle", !.n = @ + 1, !.verified = FALSE,
                                  !.payer = NoPayer, !.tx = 0, !.saw = None, !.met = None]
       ELSE /\ sres' = <<>>
            /\ fac' = [fac EXCEPT !.op = "settle", !.n = @ + 1, !.verified = TRUE,
                                  !.payer = v.payer, !.tx = 0, !.saw = None, !.met = None,
                                  !.pc = IF HasDeploymentInfo(sigData) THEN "getcode" ELSE "write"]

SettleBegin ==
    /\ pay.accepted # NoPayload.accepted
    /\ fac.pc = "idle" /\ fac.n < MaxOps
    /\ \E env \in VerifyEnvs(pay, req) :
         LET v == Verify(env, Cached(req), pay, req)
         IN /\ OnlyMadeRPCsFail(env, v.calls)
            /\ vres' = <<v, now, Met(env, v.calls)>>
            /\ cache' = CacheAfter(req, v.store)
            /\ SettleVerified(v)
    /\ UNCHANGED <<varsU, varsReq, varsChain, varsCli, varsCon, varsProbe, varsExt>>

\* the deployment decision without the configuration switch
AfterGetCodeAlwaysDeploy(c, deployEnabled) ==
    IF c \in RPCFailures THEN "failed_to_check_deployment"
    ELSE IF c = "code" THEN "write"
    ELSE "deploy_send"

\* Settle, lines 294-312: what follows GetCode(payer) = c: the next
\* suspension point, or the reason Settle fails with
AfterGetCode(c, deployEnabled) ==
    IF c \in RPCFailures THEN "failed_to_check_deployment"
    ELSE IF c = "code" THEN "write"
    ELSE IF deployEnabled THEN "deploy_send"
    ELSE ErrUndeployedSmartWallet

\* Settle, lines 294-312: GetCode(payer) and the deployment decision
SettleGetCode ==
    /\ fac.pc = "getcode"
    /\ \E c \in (IF CtxCancelled THEN {"context_canceled"} ELSE GetCodeOutcomes(pay.auth.From)) :
         LET next == AfterGetCode(c, cfgDeploy)
         IN IF next \in {"write", "deploy_send"}
            THEN fac' = [fac EXCEPT !.pc = next, !.saw = c] /\ UNCHANGED sres
            ELSE /\ sres' = <<SettleError(next, fac.payer, pay.accepted.network, 0)>>
                 /\ fac' = [fac EXCEPT !.pc = "idle", !.saw = c,
                                       !.met = IF c \in RPCFailures THEN c ELSE None]
    /\ UNCHANGED <<cache, vres, varsU, varsReq, varsChain, varsCli, varsCon, varsProbe, varsExt>>

\* deploySmartWallet, lines 383-393: SendTransaction(factory, calldata)
DeploySend ==
    /\ fac.pc = "deploy_send"
    /\ LET sigData == ParseERC6492Signature(HexToBytes(pay.signature).bytes)
       IN \/ /\ ~CtxCancelled
             /\ txLog' = Append(txLog, Tx("factory",
                                          <<sigData.Factory, sigData.FactoryCalldata,
                                            HexToAddress(pay.auth.From)>>, fac))
             /\ fac' = [fac EXCEPT !.pc = "deploy_wait", !.tx = Len(txLog) + 1]
             /\ UNCHANGED sres
          \/ /\ \E m \in StepFailures :
                  ReturnMet(SettleError(ErrSmartWalletDeploymentFailed, fac.payer,
                                        pay.accepted.network, 0), m)
             /\ UNCHANGED txLog
    /\ UNCHANGED <<cache, vres, code, now, varsU, varsReq, varsCli, varsCon, varsProbe, varsExt>>

\* the receipt check left out
DeployReceiptAny(status) == TRUE

\* deploySmartWallet, lines 401-403: the receipt that lets Settle go on
DeployReceiptOk(status) == status = TxStatusSuccess

\* deploySmartWallet, lines 395-405: wait for the deployment receipt; the
\* wait itself may fail at any time
DeployWait ==
    /\ fac.pc = "deploy_wait"
    /\ \/ /\ txLog[fac.tx].status # -1
          /\ DeployReceiptOk(txLog[fac.tx].status)
          /\ fac' = [fac EXCEPT !.pc = "write"]
          /\ UNCHANGED sres
       \/ /\ txLog[fac.tx].status # -1
          /\ ~DeployReceiptOk(txLog[fac.tx].status)
          /\ Return(SettleError(ErrSmartWalletDeploymentFailed, fac.payer, pay.accepted.network, 0))
       \/ \E m \in Failures :
             ReturnMet(SettleError(ErrSmartWalletDeploymentFailed, fac.payer,
                                   pay.accepted.network, 0), m)
    /\ UNCHANGED <<cache, vres, varsU, varsReq, varsChain, varsCli, varsCon, varsProbe, varsExt>>

\* Settle, lines 320-340, handing the contract the inner signature
settlePaymentArgsInner(assetInfo, payload, requirements) ==
    <<HexToAddress(assetInfo.Address), HexToAddress(payload.auth.From),
      HexToAddress(requirements.payTo), payload.auth.Value.n, payload.auth.ValidAfter,
      payload.auth.ValidBefore, payload.auth.Nonce,
      ParseERC6492Signature(HexToBytes(payload.signature).bytes).InnerSignature>>

\* Settle, lines 320-340: the arguments of settlePayment; signatureBytes
\* are the decoded payload signature of line 279
settlePaymentArgs(assetInfo, payload, requirements) ==
    <<HexToAddress(assetInfo.Address), HexToAddress(payload.auth.From),
      HexToAddress(requirements.payTo), payload.auth.Value.n, payload.auth.ValidAfter,
      payload.auth.ValidBefore, payload.auth.Nonce, HexToBytes(payload.signature).bytes>>

\* Settle, lines 319-344: WriteContract(settlePayment) with the signature
\* bytes of the payload
SettleWrite ==
    /\ fac.pc = "write"
    /\ LET assetInfo == GetAssetInfo(GetNetworkConfig(req.network), req.asset)
       IN \/ /\ ~CtxCancelled
             /\ txLog' = Append(txLog, Tx("settlePayment",
                                          settlePaymentArgs(assetInfo, pay, req), fac))
             /\ fac' = [fac EXCEPT !.pc = "wait", !.tx = Len(txLog) + 1]
             /\ UNCHANGED sres
          \/ /\ \E m \in StepFailures :
                  ReturnMet(SettleError("failed_to_execute_transfer", fac.payer,
                                        pay.accepted.network, 0), m)
             /\ UNCHANGED txLog
    /\ UNCHANGED <<cache, vres, code, now, varsU, varsReq, varsCli, varsCon, varsProbe, varsExt>>

\* the answer to a receipt whatever its status
SettleReceiptAnyStatus(status, payer, network, txHash) == SRes(FALSE, None, payer, network, txHash)

\* Settle, lines 352-361: the answer to the receipt of settlePayment
SettleReceipt(status, payer, network, txHash) ==
    IF status # TxStatusSuccess
    THEN SettleError("transaction_failed", payer, network, txHash)
    ELSE SRes(FALSE, None, payer, network, txHash)

\* the answer to a failed wait without the hash
ReceiptWaitFailedNoHash(payer, network, txHash) == SettleError("failed_to_get_receipt", payer, network, 0)

\* Settle, lines 347-350: the answer when the wait for the receipt fails
ReceiptWaitFailed(payer, network, txHash) == SettleError("failed_to_get_receipt", payer, network, txHash)

\* Settle, lines 346-361: wait for the receipt and answer; the wait fails
\* when the node cannot be reached or the context is cancelled, at any
\* time and whatever becomes of the transaction
SettleWait ==
    /\ fac.pc = "wait"
    /\ \/ /\ txLog[fac.tx].status # -1
          /\ Return(SettleReceipt(txLog[fac.tx].status, fac.payer, pay.accepted.network, fac.tx))
       \/ \E m \in Failures :
             ReturnMet(ReceiptWaitFailed(fac.payer, pay.accepted.network, fac.tx), m)
    /\ UNCHANGED <<cache, vres, varsU, varsReq, varsChain, varsCli, varsCon, varsProbe, varsExt>>

\* chain: a pending transaction is mined, with either status; a
\* successful factory call leaves code at the wallet's address
Mine ==
    /\ \E i \in 1..Len(txLog), st \in {TxStatusSuccess, TxStatusFailed} :
         /\ txLog[i].status = -1
         /\ txLog' = [txLog EXCEPT ![i].status = st]
         /\ code' = IF txLog[i].kind = "factory" /\ st = TxStatusSuccess
                    THEN code \cup {txLog[i].args[3]} ELSE code
         /\ allow' = IF txLog[i].kind = "approve" /\ st = TxStatusSuccess
                     THEN txLog[i].args[3] ELSE allow
    /\ UNCHANGED <<now, varsU, varsReq, varsFac, cli, cres, varsCon, varsProbe, varsExt>>

\* chain: somebody else deploys the smart wallet
DeployElsewhere ==
    /\ \E w \in WalletAddrs : w \notin code /\ code' = code \cup {w}
    /\ UNCHANGED <<now, txLog, varsU, varsReq, varsFac, varsCli, varsCon, varsProbe, varsExt>>

\* a second passes; the facilitator never reads the clock, so only the
\* time at which a call begins is observable, and the clock is followed
\* while calls remain to be served
Tick ==
    /\ fac.pc = "idle" /\ fac.n < MaxOps
    /\ now < MaxTime
    /\ now' = now + 1
    /\ UNCHANGED <<code, txLog, varsU, varsReq, varsFac, varsCli, varsCon, varsProbe, varsExt>>

IdleFac ==
    /\ cache = [k \in CacheKeys |-> "absent"]
    /\ fac = FacIdle
    /\ vres = <<>>
    /\ sres = <<>>

IdleChain == code = {} /\ now = 0 /\ txLog = <<>>

IdleReq ==
    /\ req = RouteReq
    /\ pay = NoPayload
    /\ cfgDeploy = FALSE
    /\ ctx = "background"

(***************************************************************************)
(* Concurrent callers of VerifyEIP3009Support (utils.go lines 221-306)     *)
(* The function reads the cache (sync.Map Load), makes the simulated call  *)
(* and writes the cache (sync.Map Store) in three steps; the goroutines of *)
(* concurrent requests interleave between them.                            *)
(***************************************************************************)
\* bounds: the goroutines, and the calls they make in all
NumProbers == 2
MaxLookups == 3

Probers == 1..NumProbers

\* the tokens looked up, on Base mainnet
ProbedTokens == {"USDC_BASE", "T2"}
ProbeChain == GetNetworkConfig("eip155:8453").ChainID

\* the answers a token contract can give to the simulated call
TokenOutcomes ==
    {"ok", "err_keyword", "err_upper", "err_auth", "err_nonce", "err_plural",
     "err_unauthorized", "err_other"}

\* prober[p].pc: "idle", "read" (before ReadContract), "store" (before
\* Store), "done" (returned)
\* token: the tokenAddress argument; out: what ReadContract gave
\* ret: the boolean returned; prior: the answers that had been returned
\* for the key when the call began; n: calls begun
ProberIdle ==
    [pc |-> "idle", token |-> AddrStr("", FALSE), out |-> None, ret |-> FALSE,
     prior |-> {}, n |-> 0]

KeyOf(p) == CacheKey(ProbeChain, prober[p].token)

\* the calls begun by the goroutines 1..k
RECURSIVE Lookups(_)
Lookups(k) == IF k = 0 THEN 0 ELSE prober[k].n + Lookups(k - 1)

\* lines 222-226: the cache key and Load; a hit returns at once
ProbeLoad(p) ==
    /\ prober[p].pc \in {"idle", "done"}
    /\ Lookups(NumProbers) < MaxLookups
    /\ \E t \in ProbedTokens, up \in BOOLEAN :
         LET token == AddrStr(t, up)
             key == CacheKey(ProbeChain, token)
             r == VerifyEIP3009Support(cache[key], None)
             hit == cache[key] # "absent"
         IN /\ prober' = [prober EXCEPT ![p] =
                   [pc |-> IF hit THEN "done" ELSE "read", token |-> token, out |-> None,
                    ret |-> hit /\ r.supported, prior |-> returned[key],
                    n |-> prober[p].n + 1]]
            /\ returned' = IF hit THEN [returned EXCEPT ![key] = @ \cup {r.supported}]
                           ELSE returned
    /\ UNCHANGED <<tokenSays, varsU, varsReq, varsChain, varsFac, varsCli, varsCon, varsExt>>

\* lines 266-281: the simulated call; it gives the contract's answer or
\* fails on the way
ProbeRead(p) ==
    /\ prober[p].pc = "read"
    /\ \E out \in {tokenSays[prober[p].token.a]} \cup Failures :
         prober' = [prober EXCEPT ![p].pc = "store", ![p].out = out]
    /\ UNCHANGED <<returned, tokenSays, varsU, varsReq, varsChain, varsFac, varsCli, varsCon, varsExt>>

\* lines 283-305: classify the outcome, Store and return
ProbeStore(p) ==
    /\ prober[p].pc = "store"
    /\ LET r == VerifyEIP3009Support("absent", prober[p].out)
       IN /\ cache' = [cache EXCEPT ![KeyOf(p)] = r.store]
          /\ prober' = [prober EXCEPT ![p].pc = "done", ![p].ret = r.supported]
          /\ returned' = [returned EXCEPT ![KeyOf(p)] = @ \cup {r.supported}]
    /\ UNCHANGED <<fac, vres, sres, tokenSays, varsU, varsReq, varsChain, varsCli, varsCon, varsExt>>

IdleProbe ==
    /\ prober = [p \in Probers |-> ProberIdle]
    /\ returned = [k \in CacheKeys |-> {}]
    /\ tokenSays = [t \in ProbedTokens |-> TokenProbe(AddrStr(t, FALSE))]

(***************************************************************************)
(* The paying client (exact/client scheme, behind x402Client)              *)
(***************************************************************************)
\* time.Hour and the clock-skew allowance of CreateValidityWindow, seconds
Hour == 3600
SkewBuffer == 30

\* utils.go CreateValidityWindow without the clock-skew allowance
CreateValidityWindowNoSkew(t, duration) ==
    [validAfter |-> t, validBefore |-> t + duration]

\* utils.go CreateValidityWindow
CreateValidityWindow(t, duration) ==
    [validAfter |-> t - SkewBuffer, validBefore |-> t + duration]

\* the nonces CreateNonce can draw
Nonces == {"n1", "n2"}

\* ClientEvmSigner.SignTypedData by the signer of address a: r||s||v over
\* the EIP-712 digest of the typed data, 65 bytes, v = 27 + recovery id
\* or the bare recovery id
SignTypedData(a, v, digest) == SigStr("hex", MkSig("none", ZeroAddr, <<>>, 65, a.a, digest, v))

\* client scheme, lines 72-81: name and version of the EIP-712 domain
ClientTokenName(assetInfo, extra) ==
    IF extra.name # None THEN extra.name ELSE assetInfo.Name
ClientTokenVersion(assetInfo, extra) ==
    IF extra.version # None THEN extra.version ELSE assetInfo.Version

\* client scheme signAuthorizationEIP3009: the typed data handed to the
\* signer
signAuthorizationEIP3009(a, v, auth, chainID, verifyingContract, tokenName, tokenVersion) ==
    SignTypedData(a, v,
        Digest("TransferWithAuthorization", tokenName, tokenVersion, chainID,
               HexToAddress(verifyingContract), None,
               HexToAddress(auth.From), HexToAddress(auth.To), auth.Value.n,
               auth.ValidAfter, auth.ValidBefore, auth.Nonce, FALSE))

\* client scheme signAuthorizationERC20
signAuthorizationERC20(a, v, auth, chainID, verifyingContract) ==
    SignTypedData(a, v,
        Digest("tokenTransferWithAuthorization", "Facilitator", "1", chainID,
               verifyingContract, HexToAddress(auth.Token),
               HexToAddress(auth.From), HexToAddress(auth.To), auth.Value.n,
               auth.ValidAfter, auth.ValidBefore, auth.Nonce, auth.NeedApprove))

\* the result of the scheme's CreatePaymentPayload: a payload whose
\* Accepted is left zero, or an error
CRes(err, payload) == [err |-> err, payload |-> payload]
ClientError(err) == CRes(err, NoPayload)

\* client scheme, lines 105-133: the EIP-3009 payload
PayloadEIP3009(a, requirements, config, assetInfo, nonce, window, env) ==
    LET auth == Authorization(a, requirements.payTo, BigString(requirements.amount.n),
                              window.validAfter, window.validBefore, nonce,
                              AddrStr(ZeroAddr, FALSE), FALSE)
    IN IF env.sign = "error" THEN ClientError("failed_to_sign_authorization")
       ELSE CRes(None, Payload(NoPayload.accepted, "authorizationEip3009", auth,
                   signAuthorizationEIP3009(a, env.v, auth, config.ChainID, assetInfo.Address,
                       ClientTokenName(assetInfo, requirements.extra),
                       ClientTokenVersion(assetInfo, requirements.extra))))

\* client scheme, lines 181-212: the ERC-20 payload
PayloadERC20(a, requirements, config, assetInfo, nonce, window, env) ==
    LET auth == Authorization(a, requirements.payTo, BigString(requirements.amount.n),
                              window.validAfter, window.validBefore, nonce,
                              assetInfo.Address, TRUE)
    IN IF env.sign = "error" THEN ClientError("failed_to_sign_authorization")
       ELSE CRes(None, Payload(NoPayload.accepted, "authorization", auth,
                   signAuthorizationERC20(a, env.v, auth, config.ChainID,
                                          FacilitatorContractAddress)))

\* x402Client.CreatePaymentPayload around the scheme's result: the
\* requirements paid against are copied into Accepted
WithAccepted(payload, requirements) ==
    [payload EXCEPT !.accepted = AcceptedOf(requirements)]

\* cli.pc: "idle", or the RPC the client is about to make
\* cli.nonce, cli.window: the locals of lines 63-69; cli.tx: the approve hash
\* cli.at: the time the call began; cli.allowance: the allowance read
\* cli.calls: the RPCs the call has made
CliIdle(a) ==
    [pc |-> "idle", signer |-> a, nonce |-> "", tx |-> 0,
     window |-> [validAfter |-> 0, validBefore |-> 0], at |-> 0, allowance |-> 0,
     calls |-> <<>>]

\* the signing outcomes of one call
SignEnvs == [sign : {"ok", "error"}, v : {0, 27}]

\* the transactions of the client's signer carry no facilitator call
ByClient == [op |-> "client", n |-> 0, verified |-> FALSE, saw |-> None]

\* CreatePaymentPayload returns, its locals being c
ClientReturn(res, c) ==
    /\ cres' = <<res>>
    /\ pay' = IF res.err = None THEN WithAccepted(res.payload, req) ELSE pay
    /\ cli' = [c EXCEPT !.pc = "idle"]

\* CreatePaymentPayload, lines 89-101, with the probe made whatever the
\* static flag says
supportsEIP3009ProbeAlways(assetInfo, cached, probe) ==
    VerifyEIP3009Support(cached, probe)

\* CreatePaymentPayload, lines 89-101: the static flag of the asset, and
\* the capability probe only when the flag is not set
supportsEIP3009(assetInfo, cached, probe) ==
    IF assetInfo.SupportsEIP3009
    THEN [supported |-> TRUE, calls |-> <<>>, store |-> "absent"]
    ELSE VerifyEIP3009Support(cached, probe)

\* CreatePaymentPayload, lines 38-133: validation, flow choice (static
\* flag, else the capability probe) and the EIP-3009 payload
ClientCreate ==
    /\ cli.pc = "idle" /\ cres = <<>>
    /\ \E nonce \in Nonces, probe \in ProbeResults \cup Failures, env \in SignEnvs :
         LET config == GetNetworkConfig(req.network)
             assetInfo == GetAssetInfo(config, req.asset)
             window == CreateValidityWindow(now, Hour)
             p == supportsEIP3009(assetInfo, Cached(req), probe)
             c == [cli EXCEPT !.nonce = nonce, !.window = window, !.at = now,
                              !.calls = p.calls]
         IN IF ~IsValidNetwork(req.network)
            THEN ClientReturn(ClientError("unsupported_network"), cli) /\ UNCHANGED cache
            ELSE IF config.err # None
            THEN ClientReturn(ClientError("unsupported_network_config"), cli) /\ UNCHANGED cache
            ELSE IF ~req.amount.ok
            THEN ClientReturn(ClientError("invalid_amount"), cli) /\ UNCHANGED cache
            ELSE /\ cache' = CacheAfter(req, p.store)
                 /\ IF p.supported
                    THEN ClientReturn(PayloadEIP3009(cli.signer, req, config, assetInfo,
                                                     nonce, window, env), c)
                    ELSE /\ cli' = [c EXCEPT !.pc = "allowance"]
                         /\ UNCHANGED <<cres, pay>>
    /\ UNCHANGED <<req, cfgDeploy, ctx, allow, fac, vres, sres, varsU, varsChain, varsCon, varsProbe, varsExt>>

\* the ERC-20 payload once the allowance suffices
ClientSignERC20(env, c) ==
    LET config == GetNetworkConfig(req.network)
        assetInfo == GetAssetInfo(config, req.asset)
    IN ClientReturn(PayloadERC20(c.signer, req, config, assetInfo, c.nonce,
                                 c.window, env), c)

\* CreatePaymentPayload, lines 137-156: read the allowance
ClientAllowance ==
    /\ cli.pc = "allowance"
    /\ \E read \in {"ok", "rpc_error", "badtype"}, env \in SignEnvs :
         LET c == [cli EXCEPT !.calls = Append(@, "allowance")]
             read_c == [c EXCEPT !.allowance = allow]
         IN IF read = "rpc_error"
            THEN ClientReturn(ClientError("failed_to_check_allowance"), c)
            ELSE IF read = "badtype"
            THEN ClientReturn(ClientError("invalid_allowance_type"), c)
            ELSE IF allow < req.amount.n
            THEN cli' = [read_c EXCEPT !.pc = "approve"] /\ UNCHANGED <<cres, pay>>
            ELSE ClientSignERC20(env, read_c)
    /\ UNCHANGED <<req, cfgDeploy, ctx, allow, varsFac, varsU, varsChain, varsCon, varsProbe, varsExt>>

\* CreatePaymentPayload, lines 158-168: send approve(facilitator, value)
ClientApprove ==
    /\ cli.pc = "approve"
    /\ \E write \in {"ok", "error"} :
         LET c == [cli EXCEPT !.calls = Append(@, "approve")]
         IN IF write = "error"
            THEN /\ ClientReturn(ClientError("failed_to_send_approve"), c)
                 /\ UNCHANGED txLog
            ELSE LET assetInfo == GetAssetInfo(GetNetworkConfig(req.network), req.asset)
                 IN /\ txLog' = Append(txLog, Tx("approve",
                                              <<assetInfo.Address.a, FacilitatorContractAddress,
                                                req.amount.n>>, ByClient))
                    /\ cli' = [c EXCEPT !.pc = "wait", !.tx = Len(txLog) + 1]
                    /\ UNCHANGED <<cres, pay>>
    /\ UNCHANGED <<req, cfgDeploy, ctx, allow, code, now, varsFac, varsU, varsCon, varsProbe, varsExt>>

\* CreatePaymentPayload, lines 174-176, with the receipt's status ignored
approveReceiptAnyStatus(status) == None

\* CreatePaymentPayload, lines 174-176: a receipt of status 0 aborts
approveReceipt(status) ==
    IF status = 0 THEN "approve_transaction_failed" ELSE None

\* CreatePaymentPayload, lines 171-212: wait for the approve receipt, then
\* sign
ClientWait ==
    /\ cli.pc = "wait"
    /\ LET c == [cli EXCEPT !.calls = Append(@, "WaitForTransactionReceipt")]
       IN \/ ClientReturn(ClientError("failed_to_wait_for_approve_receipt"), c)
          \/ /\ txLog[cli.tx].status # -1
             /\ approveReceipt(txLog[cli.tx].status) # None
             /\ ClientReturn(ClientError(approveReceipt(txLog[cli.tx].status)), c)
          \/ /\ txLog[cli.tx].status # -1
             /\ approveReceipt(txLog[cli.tx].status) = None
             /\ \E env \in SignEnvs : ClientSignERC20(env, c)
    /\ UNCHANGED <<req, cfgDeploy, ctx, allow, varsFac, varsU, varsChain, varsCon, varsProbe, varsExt>>

IdleCli == cli = CliIdle(AddrStr("K1", FALSE)) /\ cres = <<>> /\ allow = 0

(***************************************************************************)
(* The Facilitator contract (Facilitator.sol) and the tokens it moves      *)
(***************************************************************************)
\* bounds: calls made to the contract in one behaviour, tokens held and
\* approved at the start
MaxCalls == 2
Funds == 2

CTokens == {"T1", "T2"}
CFroms == {"K1", "K2"}
\* the (token, authorizer, nonce) triples of the calls: one, and one that
\* differs from it in each coordinate
Triples == {<<"T1", "K1", "n1">>, <<"T1", "K1", "n2">>, <<"T1", "K2", "n1">>,
            <<"T2", "K1", "n1">>}
Senders == {"OP", "X"}

\* the struct hash of tokenTransferWithAuthorization (lines 387-399) under
\* the contract's domain
TransferDataHash(token, from, to, value, validAfter, validBefore, nonce, needApprove) ==
    [typehash |-> "tokenTransferWithAuthorization", token |-> token, from |-> from,
     to |-> to, value |-> value, validAfter |-> validAfter, validBefore |-> validBefore,
     nonce |-> nonce, needApprove |-> needApprove]

\* the struct hash of tokenCancelAuthorization (line 431)
CancelDataHash(token, authorizer, nonce, needApprove) ==
    [typehash |-> "tokenCancelAuthorization", token |-> token, authorizer |-> authorizer,
     nonce |-> nonce, needApprove |-> needApprove]

\* signature bytes handed to the contract: length, last byte, the key
\* that signed and the struct hash it signed
CSig(len, v, key, dig) == [len |-> len, v |-> v, key |-> key, dig |-> dig]

\* _requireValidSignature: SignatureChecker.isValidSignatureNow for a
\* signer without code is ECDSA recovery of a 65-byte signature
_requireValidSignature(signer, dataHash, signature) ==
    IF signature.len = 65 /\ signature.key = signer /\ signature.dig = dataHash
    THEN None ELSE "InvalidSignature"

\* _requireUnusedAuthorization
_requireUnusedAuthorization(c, token, authorizer, nonce) ==
    IF <<token, authorizer, nonce>> \in c.used THEN "NonceUsed" ELSE None

\* _requireValidAuthorization at block.timestamp t
\* _requireValidAuthorization with the upper bound of the window excluded
_requireValidAuthorizationExclusive(c, t, token, authorizer, nonce, validAfter, validBefore) ==
    IF t < validAfter THEN "AuthorizationNotYetValid"
    ELSE IF t >= validBefore THEN "AuthorizationExpired"
    ELSE _requireUnusedAuthorization(c, token, authorizer, nonce)

_requireValidAuthorization(c, t, token, authorizer, nonce, validAfter, validBefore) ==
    IF t < validAfter THEN "AuthorizationNotYetValid"
    ELSE IF t > validBefore THEN "AuthorizationExpired"
    ELSE _requireUnusedAuthorization(c, token, authorizer, nonce)

\* _requireTokenAllowed
_requireTokenAllowed(tk, token, authorizer, value) ==
    IF tk.allowance[token, authorizer] < value THEN "InsufficientAllowance" ELSE None

\* _markAuthorizationAsUsed left out
_markAuthorizationAsUsedNot(c, token, authorizer, nonce) == c

\* _markAuthorizationAsUsed
_markAuthorizationAsUsed(c, token, authorizer, nonce) ==
    [c EXCEPT !.used = @ \cup {<<token, authorizer, nonce>>}]

\* _splitSignature
_splitSignature(signature) ==
    IF signature.len # 65 THEN "InvalidSignatureLength"
    ELSE IF (IF signature.v < 27 THEN signature.v + 27 ELSE signature.v) \notin {27, 28}
    THEN "InvalidSignatureVValue"
    ELSE None

\* MockUSDC.transferFrom leaving the allowance as it was
transferFromKeepAllowance(tk, token, from, amount) ==
    IF tk.balanceOf[token, from] < amount
    THEN [err |-> "Insufficient balance", tok |-> tk]
    ELSE IF tk.allowance[token, from] < amount
    THEN [err |-> "Insufficient allowance", tok |-> tk]
    ELSE [err |-> None, tok |-> [tk EXCEPT !.balanceOf[token, from] = @ - amount]]

\* MockUSDC.transferFrom called by the contract: [err, tok]
transferFrom(tk, token, from, amount) ==
    IF tk.balanceOf[token, from] < amount
    THEN [err |-> "Insufficient balance", tok |-> tk]
    ELSE IF tk.allowance[token, from] < amount
    THEN [err |-> "Insufficient allowance", tok |-> tk]
    ELSE [err |-> None,
          tok |-> [tk EXCEPT !.allowance[token, from] = @ - amount,
                             !.balanceOf[token, from] = @ - amount]]

\* the outcome of a call: the error it reverted with (state unchanged) or
\* None with the state it leaves; moved: whether the ERC-20 path
\* transferred
COut(err, c, tk, moved) == [err |-> err, con |-> c, tok |-> tk, moved |-> moved]

\* _tokenTransferWithAuthorization. token3009: how the token answers
\* transferWithAuthorization in either signature format ("ok" | "revert")
_tokenTransferWithAuthorization(c, tk, t, token3009, token, from, to, value, validAfter, validBefore, nonce, needApprove, signature) ==
    IF ~needApprove
    THEN IF _splitSignature(signature) # None
         THEN COut(_splitSignature(signature), c, tk, FALSE)
         ELSE IF token3009 = "ok" THEN COut(None, c, tk, FALSE)
         ELSE COut("TokenReverted", c, tk, FALSE)
    ELSE LET e1 == _requireValidAuthorization(c, t, token, from, nonce, validAfter, validBefore)
             e2 == _requireTokenAllowed(tk, token, from, value)
             e3 == _requireValidSignature(from,
                       TransferDataHash(token, from, to, value, validAfter, validBefore,
                                        nonce, needApprove), signature)
             moved == transferFrom(tk, token, from, value)
         IN IF e1 # None THEN COut(e1, c, tk, FALSE)
            ELSE IF e2 # None THEN COut(e2, c, tk, FALSE)
            ELSE IF e3 # None THEN COut(e3, c, tk, FALSE)
            ELSE IF moved.err # None THEN COut(moved.err, c, tk, FALSE)
            ELSE COut(None, _markAuthorizationAsUsed(c, token, from, nonce), moved.tok, TRUE)

\* _tokenCancelAuthorization
_tokenCancelAuthorization(c, tk, token3009, token, authorizer, nonce, needApprove, signature) ==
    IF ~needApprove
    THEN IF _splitSignature(signature) # None
         THEN COut(_splitSignature(signature), c, tk, FALSE)
         ELSE IF token3009 = "ok" THEN COut(None, c, tk, FALSE)
         ELSE COut("TokenReverted", c, tk, FALSE)
    ELSE LET e1 == _requireUnusedAuthorization(c, token, authorizer, nonce)
             e2 == _requireValidSignature(authorizer,
                       CancelDataHash(token, authorizer, nonce, needApprove), signature)
         IN IF e1 # None THEN COut(e1, c, tk, FALSE)
            ELSE IF e2 # None THEN COut(e2, c, tk, FALSE)
            ELSE COut(None, [c EXCEPT !.used = @ \cup {<<token, authorizer, nonce>>}],
                      tk, FALSE)

\* the modifiers whenNotPaused and onlyOperator
Modifiers(c, sender) ==
    IF c.paused THEN "EnforcedPause"
    ELSE IF sender \notin c.isOperator THEN "InvalidOperator"
    ELSE None

\* the record of a call: its arguments and block time, whether the
\* modifiers admitted it, whether the triple was already used / had
\* already moved tokens, and the result
CallRec(fn, token, from, nonce, validAfter, validBefore, needApprove, sender, out) ==
    [fn |-> fn, token |-> token, from |-> from, nonce |-> nonce,
     validAfter |-> validAfter, validBefore |-> validBefore, needApprove |-> needApprove,
     at |-> now, n |-> call.n + 1,
     admitted |-> Modifiers(con, sender) = None,
     usedBefore |-> <<token, from, nonce>> \in con.used,
     movedBefore |-> xfer[<<token, from, nonce>>] > 0,
     result |-> IF out.err = None THEN "ok" ELSE out.err]

NoCall ==
    [fn |-> None, token |-> "", from |-> "", nonce |-> "", validAfter |-> 0,
     validBefore |-> 0, needApprove |-> FALSE, at |-> 0, n |-> 0,
     admitted |-> FALSE, usedBefore |-> FALSE, movedBefore |-> FALSE, result |-> None]

\* a transaction's effect: committed, or reverted leaving the state as it
\* was
Commit(out, triple) ==
    /\ con' = out.con
    /\ tok' = out.tok
    /\ xfer' = IF out.moved THEN [xfer EXCEPT ![triple] = @ + 1] ELSE xfer

\* the signatures presented with a call whose struct hash is h and whose
\* authorizer is from. On the ERC-20 path: the authorizer's, another
\* key's, one over another struct, one of 66 bytes. On the token's own
\* path, where the token judges the signature: one of 65 bytes, one of
\* 66, one whose last byte is no recovery id
CallSigs(needApprove, from, h, other) ==
    IF needApprove
    THEN {CSig(65, 27, from, h), CSig(65, 27, "K3", h), CSig(65, 27, from, other),
          CSig(66, 27, from, h)}
    ELSE {CSig(65, 0, from, h), CSig(66, 27, from, h), CSig(65, 5, from, h)}

\* the token's answers to transferWithAuthorization / cancelAuthorization
Token3009(needApprove) == IF needApprove THEN {"revert"} ELSE {"ok", "revert"}

\* the validity windows of the calls: [0, 1] and, on the ERC-20 path,
\* [1, MaxTime]
Windows(needApprove) == IF needApprove THEN {<<0, 1>>, <<1, MaxTime>>} ELSE {<<0, 1>>}

\* tokenTransferWithAuthorization (bytes signature; the (v, r, s) overload
\* packs r||s||v and does the same)
tokenTransferWithAuthorization ==
    /\ call.n < MaxCalls
    /\ \E triple \in Triples, needApprove \in BOOLEAN, sender \in Senders :
       \E w \in Windows(needApprove), token3009 \in Token3009(needApprove) :
         LET token == triple[1]
             from == triple[2]
             nonce == triple[3]
             h == TransferDataHash(token, from, "P1", 1, w[1], w[2], nonce, needApprove)
             h2 == TransferDataHash(token, from, "P2", 1, w[1], w[2], nonce, needApprove)
         IN \E signature \in CallSigs(needApprove, from, h, h2) :
              LET m == Modifiers(con, sender)
                  out == IF m # None THEN COut(m, con, tok, FALSE)
                         ELSE _tokenTransferWithAuthorization(con, tok, now, token3009, token,
                                  from, "P1", 1, w[1], w[2], nonce, needApprove, signature)
              IN /\ IF out.err = None THEN Commit(out, triple)
                                      ELSE UNCHANGED <<con, tok, xfer>>
                 /\ call' = CallRec("transfer", token, from, nonce, w[1], w[2],
                                    needApprove, sender, out)
    /\ UNCHANGED <<varsU, varsReq, varsChain, varsFac, varsCli, varsProbe, varsExt>>

\* tokenCancelAuthorization
tokenCancelAuthorization ==
    /\ call.n < MaxCalls
    /\ \E triple \in Triples, needApprove \in BOOLEAN, sender \in Senders :
       \E token3009 \in Token3009(needApprove) :
         LET token == triple[1]
             from == triple[2]
             nonce == triple[3]
             h == CancelDataHash(token, from, nonce, needApprove)
             h2 == CancelDataHash(token, from, "n3", needApprove)
         IN \E signature \in CallSigs(needApprove, from, h, h2) :
              LET m == Modifiers(con, sender)
                  out == IF m # None THEN COut(m, con, tok, FALSE)
                         ELSE _tokenCancelAuthorization(con, tok, token3009, token, from,
                                                        nonce, needApprove, signature)
              IN /\ IF out.err = None THEN Commit(out, triple)
                                      ELSE UNCHANGED <<con, tok, xfer>>
                 /\ call' = CallRec("cancel", token, from, nonce, 0, 0, needApprove,
                                    sender, out)
    /\ UNCHANGED <<varsU, varsReq, varsChain, varsFac, varsCli, varsProbe, varsExt>>

\* pauseContract / unPauseContract, by the owner
pauseContract ==
    /\ ~con.paused
    /\ con' = [con EXCEPT !.paused = TRUE]
    /\ UNCHANGED <<tok, xfer, call, varsU, varsReq, varsChain, varsFac, varsCli, varsProbe, varsExt>>

unPauseContract ==
    /\ con.paused
    /\ con' = [con EXCEPT !.paused = FALSE]
    /\ UNCHANGED <<tok, xfer, call, varsU, varsReq, varsChain, varsFac, varsCli, varsProbe, varsExt>>

\* setOperator(OP, available), by the owner
setOperator ==
    /\ \E available \in BOOLEAN :
         /\ ("OP" \in con.isOperator) # available
         /\ con' = [con EXCEPT !.isOperator = IF available THEN @ \cup {"OP"}
                                              ELSE @ \ {"OP"}]
    /\ UNCHANGED <<tok, xfer, call, varsU, varsReq, varsChain, varsFac, varsCli, varsProbe, varsExt>>

\* MockUSDC.approve(contract, Funds) by a holder who has spent allowance
approve ==
    /\ \E token \in CTokens, holder \in CFroms :
         /\ tok.allowance[token, holder] < Funds
         /\ tok' = [tok EXCEPT !.allowance[token, holder] = Funds]
    /\ UNCHANGED <<con, xfer, call, varsU, varsReq, varsChain, varsFac, varsCli, varsProbe, varsExt>>

\* the contract as initialised, with one operator; every holder funded
\* and having approved the contract
InitCon ==
    /\ con = [used |-> {}, paused |-> FALSE, isOperator |-> {"OP"}]
    /\ tok = [balanceOf |-> [k \in CTokens \X CFroms |-> Funds],
              allowance |-> [k \in CTokens \X CFroms |-> Funds]]
    /\ xfer = [t \in Triples |-> 0]
    /\ call = NoCall

(***************************************************************************)
(* Specifications                                                          *)
(***************************************************************************)
\* the verifier harness: every input, one call
InitU ==
    /\ uIn \in UInputs
    /\ uOut = <<>>
    /\ bIn = None /\ bOut = <<>>
    /\ IdleReq /\ IdleChain /\ IdleFac /\ IdleCli /\ InitCon /\ IdleProbe /\ IdleExt

NextU == UVerify

SpecU == InitU /\ [][NextU]_vars

\* the facilitator serving /verify and /settle for one presented payload
InitF ==
    /\ IdleU
    /\ req = RouteReq
    /\ pay \in PresentedPayloads(req)
    /\ cfgDeploy \in BOOLEAN
    /\ ctx = "background"
    /\ code \in {{}, WalletAddrs}
    /\ now = 0
    /\ txLog = <<>>
    /\ IdleFac /\ IdleCli /\ InitCon /\ IdleProbe /\ IdleExt

NextF ==
    \/ FVerify
    \/ SettleBegin
    \/ SettleGetCode
    \/ DeploySend
    \/ DeployWait
    \/ SettleWrite
    \/ SettleWait
    \/ Mine
    \/ DeployElsewhere
    \/ Tick

SpecF == InitF /\ [][NextF]_vars

\* the payloads served under a cancellable context: with and without
\* type, signed by K1 over the EIP-3009 digest: a 65-byte signature, a
\* longer one, and a longer one in an envelope with deployment info
CancelPayloads(r) ==
    {p \in SignedPayloads(r) :
        /\ p.type \in {None, "authorizationEip3009"}
        /\ p.signature.form = "hex" /\ p.signature.sig.key = "K1"
        /\ p.signature.sig.dig = Digest3009(p.auth, r)
        /\ \/ p.signature.sig.wrap = "none"
           \/ /\ p.signature.sig.wrap = "ok" /\ p.signature.sig.len = 66
              /\ p.signature.sig.factory # ZeroAddr}

\* the facilitator serving requests whose context can be cancelled at any
\* RPC (the HTTP request is aborted, or its deadline passes)
InitX ==
    /\ IdleU
    /\ req = RouteReq
    /\ pay \in CancelPayloads(req)
    /\ cfgDeploy \in BOOLEAN
    /\ ctx = "cancellable"
    /\ code \in {{}, WalletAddrs}
    /\ now = 0
    /\ txLog = <<>>
    /\ IdleFac /\ IdleCli /\ InitCon /\ IdleProbe /\ IdleExt

NextX == NextF

SpecX == InitX /\ [][NextX]_vars

\* the requirements a client is asked to pay: networks by id and alias,
\* one without configuration and one that is no EVM network; the asset by
\* symbol, by address and another token; the amount in canonical and
\* other decimal form and no number; the recipient in either case; the
\* domain name and version overridden or not
ClientReqs ==
    {Requirements(SchemeExact, network, asset, amount, payTo, extra) :
        network \in {"eip155:8453", "base-sepolia", "eip155:1", "solana:mainnet"},
        asset \in {AssetStr("text", "USDC", FALSE), AssetStr("addr", "USDC_BASE", TRUE),
                   AssetStr("addr", "T2", FALSE)},
        amount \in {DecStr(TRUE, Required, TRUE), DecStr(TRUE, Required, FALSE),
                    DecStr(FALSE, 0, FALSE)},
        payTo \in {AddrStr("P1", FALSE), AddrStr("P1", TRUE)},
        extra \in {Extra(None, None), Extra("Other Coin", None), Extra(None, "1")}}

\* a client builds a payload for the requirements and the facilitator
\* verifies it against them
InitP ==
    /\ IdleU /\ IdleChain /\ IdleFac
    /\ req \in ClientReqs
    /\ pay = NoPayload
    /\ cfgDeploy = FALSE
    /\ ctx = "background"
    /\ cli \in {CliIdle(AddrStr("K1", TRUE)), CliIdle(AddrStr("K2", FALSE))}
    /\ cres = <<>>
    /\ allow \in {0, Required}
    /\ InitCon /\ IdleProbe /\ IdleExt

NextP ==
    \/ ClientCreate
    \/ ClientAllowance
    \/ ClientApprove
    \/ ClientWait
    \/ Mine
    \/ Tick
    \/ FVerify

SpecP == InitP /\ [][NextP]_vars

\* goroutines looking up the capability of two tokens: one whose contract
\* answers the simulated call in any of the ways above, one without the
\* function
InitK ==
    /\ IdleU /\ IdleReq /\ IdleChain /\ IdleFac /\ IdleCli /\ InitCon /\ IdleExt
    /\ prober = [p \in Probers |-> ProberIdle]
    /\ returned = [k \in CacheKeys |-> {}]
    /\ tokenSays \in {f \in [ProbedTokens -> TokenOutcomes] : f["T2"] = "err_other"}

NextK == \E p \in Probers : ProbeLoad(p) \/ ProbeRead(p) \/ ProbeStore(p)

SpecK == InitK /\ [][NextK]_vars

\* the struct hash the contract computes for what a client signed under
\* the Facilitator domain; a digest under another domain matches none
StructHashOf(d) ==
    TransferDataHash(d.token, d.from, d.to, d.value, d.validAfter, d.validBefore, d.nonce,
                     IF d.primary = "tokenTransferWithAuthorization" /\ d.name = "Facilitator"
                        /\ d.version = "1" /\ d.vc = FacilitatorContractAddress
                     THEN d.needApprove ELSE ~d.needApprove)

\* the settlement of the client's ERC-20 payload on chain: an operator
\* calls tokenTransferWithAuthorization with the payload's authorization
\* and signature; the token's allowance of the payer for the contract is
\* the one the client reads and approves (allow)
SettleOnChain ==
    /\ call.n < MaxCalls
    /\ cli.pc = "idle" /\ cres # <<>> /\ cres[1].err = None
    /\ pay.type = "authorization"
    /\ LET auth == pay.auth
           token == HexToAddress(auth.Token)
           from == HexToAddress(auth.From)
           sig == pay.signature.sig
           tk == [tok EXCEPT !.allowance[token, from] = allow]
           out == _tokenTransferWithAuthorization(con, tk, now, "revert", token, from,
                      HexToAddress(auth.To), auth.Value.n, auth.ValidAfter, auth.ValidBefore,
                      auth.Nonce, auth.NeedApprove,
                      CSig(sig.len, sig.v, sig.key, StructHashOf(sig.dig)))
       IN /\ IF out.err = None THEN Commit(out, <<token, from, auth.Nonce>>)
                               ELSE UNCHANGED <<con, tok, xfer>>
          /\ allow' = IF out.err = None THEN out.tok.allowance[token, from] ELSE allow
          /\ call' = CallRec("transfer", token, from, auth.Nonce, auth.ValidAfter,
                             auth.ValidBefore, auth.NeedApprove, "OP", out)
    /\ UNCHANGED <<cli, cres, varsU, varsReq, varsChain, varsFac, varsProbe, varsExt>>

\* the client is asked for another payment under the same requirements
NextPayment ==
    /\ cli.pc = "idle" /\ cres # <<>>
    /\ Len(txLog) < MaxOps
    /\ cli' = CliIdle(cli.signer)
    /\ cres' = <<>>
    /\ pay' = NoPayload
    /\ UNCHANGED <<req, cfgDeploy, ctx, allow, varsU, varsChain, varsFac, varsCon, varsProbe, varsExt>>

\* a payer whose allowance is below the amount pays a token without
\* EIP-3009 again and again: approve, sign, settlement on chain
InitA ==
    /\ IdleU /\ IdleChain /\ IdleFac /\ IdleProbe /\ IdleExt
    /\ req \in {Requirements(SchemeExact, "eip155:8453", AssetStr("addr", "T1", up),
                              DecStr(TRUE, amount, TRUE), AddrStr("P1", FALSE),
                              Extra(None, None)) : up \in BOOLEAN, amount \in 1..Required}
    /\ pay = NoPayload
    /\ cfgDeploy = FALSE
    /\ ctx = "background"
    /\ cli \in {CliIdle(AddrStr("K1", FALSE)), CliIdle(AddrStr("K1", TRUE))}
    /\ cres = <<>>
    /\ allow \in 0..(req.amount.n - 1)
    /\ con = [used |-> {}, paused |-> FALSE, isOperator |-> {"OP"}]
    /\ tok = [balanceOf |-> [k \in CTokens \X CFroms |-> 2 * Required],
              allowance |-> [k \in CTokens \X CFroms |-> 0]]
    /\ xfer = [t \in Triples |-> 0]
    /\ call = NoCall

NextA ==
    \/ ClientCreate
    \/ ClientAllowance
    \/ ClientApprove
    \/ ClientWait
    \/ Mine
    \/ SettleOnChain
    \/ NextPayment

SpecA == InitA /\ [][NextA]_vars

(***************************************************************************)
(* Verify against a chain that moves                                       *)
(***************************************************************************)
\* scheme.go checkNonceUsed: authorizationState(from, nonce) read from the
\* contract that keeps the nonces
checkNonceUsed(from, nonce, tokenAddress) ==
    <<HexToAddress(tokenAddress), HexToAddress(from), nonce>> \in con.used

\* what the chain holds for the payload when Verify is called, next to
\* what Verify returned and the RPC failure it met
ChainView(v, met) ==
    LET token == HexToAddress(pay.auth.Token)
        from == HexToAddress(pay.auth.From)
    IN [pay |-> pay, v |-> v, met |-> met,
        used |-> checkNonceUsed(pay.auth.From, pay.auth.Nonce, pay.auth.Token),
        balance |-> IF <<token, from>> \in DOMAIN tok.balanceOf
                    THEN tok.balanceOf[token, from] ELSE 0,
        allowance |-> allow]

\* Verify looking the nonce up first
VerifyAtChainStateChecksNonce ==
    /\ pay.accepted # NoPayload.accepted
    /\ fac.pc = "idle" /\ fac.n < MaxOps
    /\ \E env \in VerifyEnvs(pay, req) :
         LET v0 == Verify(env, Cached(req), pay, req)
             v == IF checkNonceUsed(pay.auth.From, pay.auth.Nonce, pay.auth.Token)
                  THEN VerifyError("nonce_already_used", pay.auth.From, req.network,
                                   v0.calls, v0.store)
                  ELSE v0
         IN /\ OnlyMadeRPCsFail(env, v.calls)
            /\ vres' = <<v, now, Met(env, v.calls)>>
            /\ cache' = CacheAfter(req, v.store)
            /\ wrk' = Append(wrk, ChainView(v, Met(env, v.calls)))
    /\ fac' = [fac EXCEPT !.op = "verify", !.n = @ + 1, !.verified = FALSE,
                          !.payer = NoPayer, !.tx = 0, !.saw = None, !.met = None]
    /\ UNCHANGED <<sres, srv, poll, varsU, varsReq, varsChain, varsCli, varsCon, varsProbe>>

\* POST /verify: one call of Verify (scheme.go 73-245), with the chain's
\* view of the payload at the time of the call kept next to the result
VerifyAtChainState ==
    /\ pay.accepted # NoPayload.accepted
    /\ fac.pc = "idle" /\ fac.n < MaxOps
    /\ \E env \in VerifyEnvs(pay, req) :
         LET v == Verify(env, Cached(req), pay, req)
         IN /\ OnlyMadeRPCsFail(env, v.calls)
            /\ vres' = <<v, now, Met(env, v.calls)>>
            /\ cache' = CacheAfter(req, v.store)
            /\ wrk' = Append(wrk, ChainView(v, Met(env, v.calls)))
    /\ fac' = [fac EXCEPT !.op = "verify", !.n = @ + 1, !.verified = FALSE,
                          !.payer = NoPayer, !.tx = 0, !.saw = None, !.met = None]
    /\ UNCHANGED <<sres, srv, poll, varsU, varsReq, varsChain, varsCli, varsCon, varsProbe>>

\* the client's ERC-20 payments, verified by the facilitator before and
\* after they are settled on chain
NextV ==
    \/ ClientCreate
    \/ ClientAllowance
    \/ ClientApprove
    \/ ClientWait
    \/ Mine
    \/ SettleOnChain
    \/ NextPayment
    \/ VerifyAtChainState

\* one payer asked for the full amount, with nothing approved yet
InitV ==
    /\ InitA
    /\ req.amount.n = Required /\ ~req.asset.up
    /\ ~cli.signer.up
    /\ allow = 0

SpecV == InitV /\ [][NextV]_vars

(***************************************************************************)
(* Two Settle calls served at once                                         *)
(***************************************************************************)
\* the locals of a Settle call that is not running: its payload, its
\* position and what it has returned
Parked(f, p, v, r) == [fac |-> f, pay |-> p, vres |-> v, sres |-> r]

\* payloads of the counterfactual wallet whose signature carries
\* deployment info
WalletPayloads(r) ==
    {p \in SignedPayloads(r) :
        /\ p.type \in {"authorizationEip3009", "authorization"}
        /\ HexToAddress(p.auth.From) \in WalletAddrs
        /\ p.signature.form = "hex" /\ p.signature.sig.wrap = "ok"
        /\ p.signature.sig.factory # ZeroAddr /\ p.signature.sig.cd # <<>>}

\* the scheduler lets the other call run: the facilitator serves each
\* request on a goroutine of its own, and Settle (scheme.go 248-371)
\* takes no lock; cache, chain and configuration are shared
Yield ==
    /\ wrk' = Parked(fac, pay, vres, sres)
    /\ fac' = wrk.fac /\ pay' = wrk.pay /\ vres' = wrk.vres /\ sres' = wrk.sres
    /\ UNCHANGED <<cache, req, cfgDeploy, ctx, srv, poll, varsU, varsChain, varsCli, varsCon, varsProbe>>

\* each of the two requests is settled once
SettleOnce == fac.n = 0 /\ SettleBegin

\* two requests paid by the same undeployed wallet, deployment enabled
InitD ==
    /\ IdleU /\ IdleFac /\ IdleChain /\ IdleCli /\ InitCon /\ IdleProbe
    /\ srv = <<>> /\ poll = <<>>
    /\ req = RouteReq
    /\ pay \in WalletPayloads(req)
    /\ cfgDeploy = TRUE
    /\ ctx = "background"
    /\ wrk \in {Parked(FacIdle, p, <<>>, <<>>) : p \in WalletPayloads(req)}

NextD ==
    \/ SettleOnce
    \/ SettleGetCode
    \/ DeploySend
    \/ DeployWait
    \/ SettleWrite
    \/ SettleWait
    \/ Mine
    \/ Yield

SpecD == InitD /\ [][NextD]_vars

(***************************************************************************)
(* Callers of the capability probe sharing its cache                       *)
(***************************************************************************)
\* requirements naming a token that has no static EIP-3009 flag
UnflaggedReq ==
    Requirements(SchemeExact, "eip155:8453", AssetStr("addr", "T2", FALSE),
                 DecStr(TRUE, Required, TRUE), AddrStr("P1", FALSE), Extra(None, None))

\* payloads without a type signed by the payer K1 under either domain
TypelessPayloads(r) ==
    LET auth == PresentedAuth("K1", "P1", DecStr(TRUE, Required, TRUE), 0)
    IN {Payload(AcceptedOf(r), None, auth, EOASig("K1", d)) :
           d \in {Digest3009(auth, r), DigestERC20(auth, r)}}

\* a goroutine probing, a client paying and the facilitator verifying a
\* payload without type, all for the same token and under contexts that
\* can be cancelled; the token may or may not have the function. The
\* client's call is followed up to its allowance read
InitE ==
    /\ IdleU /\ IdleChain /\ IdleFac /\ IdleCli /\ InitCon /\ IdleExt
    /\ req = UnflaggedReq
    /\ pay \in TypelessPayloads(req)
    /\ cfgDeploy = FALSE
    /\ ctx = "cancellable"
    /\ prober = [p \in Probers |-> ProberIdle]
    /\ returned = [k \in CacheKeys |-> {}]
    /\ tokenSays \in {f \in [ProbedTokens -> {"err_keyword", "err_other"}] :
                          f["USDC_BASE"] = "err_keyword"}

NextE ==
    \/ ProbeLoad(1) \/ ProbeRead(1) \/ ProbeStore(1)
    \/ ClientCreate
    \/ ClientAllowance
    \/ FVerify

SpecE == InitE /\ [][NextE]_vars

(***************************************************************************)
(* Signature functions called on their own                                 *)
(***************************************************************************)
\* longest factoryCalldata, in bytes
MaxDataLen == 33

BFactories == {Zeros(20), Fill(20, 241), [i \in 1..20 |-> i]}
BCalldatas == {<<>>, <<222>>, Fill(32, 173), Fill(MaxDataLen, 7)}
BInners ==
    {<<>>, Fill(64, 17), Fill(65, 34), Fill(66, 51), Fill(33, 5) \o erc6492MagicBytes}

\* what a byte string was made of
Parts(factory, cd, inner) == [factory |-> factory, cd |-> cd, inner |-> inner]
NoParts == Parts(Zeros(20), <<>>, <<>>)

\* abi.encode(factory, factoryCalldata, inner) followed by the magic
\* (createERC6492SignatureForTest)
WrapBytes(factory, cd, inner) == AbiPack(factory, cd, inner) \o erc6492MagicBytes

\* b with its byte number pos (counted from one) replaced
WithByte(b, pos, val) == [b EXCEPT ![pos] = val]

EncodedInputs ==
    {[bytes |-> WrapBytes(f, cd, inner), kind |-> "wrapped", made |-> Parts(f, cd, inner)] :
        f \in BFactories, cd \in BCalldatas, inner \in BInners}

\* a magic suffix after an encoding cut short
TruncatedInputs ==
    {[bytes |-> SubSeq(e, 1, Len(e) - k) \o erc6492MagicBytes, kind |-> "truncated",
      made |-> NoParts] :
        k \in {1, 32, 33}, e \in {AbiPack(Zeros(20), cd, inner) : cd \in BCalldatas, inner \in BInners}}

\* a magic suffix after an encoding with one byte of an offset or of a
\* length changed, or with bytes that the encoding does not produce
AlteredInputs ==
    {[bytes |-> WithByte(AbiPack(Fill(20, 241), cd, Fill(65, 34)), pos, val) \o erc6492MagicBytes,
      kind |-> "altered", made |-> NoParts] :
        cd \in BCalldatas, pos \in {1, 33, 64, 96, 97, 128}, val \in {1, 255}}
    \cup {[bytes |-> AbiPack(Fill(20, 241), cd, Fill(65, 34)) \o <<9>> \o erc6492MagicBytes,
           kind |-> "altered", made |-> NoParts] : cd \in BCalldatas}
    \cup {[bytes |-> b \o erc6492MagicBytes, kind |-> "altered", made |-> NoParts] :
            b \in {<<>>, <<0, 1>>, Zeros(10), Zeros(32), Zeros(95), Zeros(96), Zeros(128)}}

\* byte strings without the magic at their end
PlainInputs ==
    {[bytes |-> b, kind |-> "plain", made |-> NoParts] :
        b \in {<<>>, Zeros(10), Zeros(31), Zeros(32), Zeros(65), Fill(65, 34), Fill(132, 100),
               SubSeq(erc6492MagicBytes, 2, 32), SubSeq(erc6492MagicBytes, 1, 31),
               WithByte(erc6492MagicBytes, 32, 147), WithByte(erc6492MagicBytes, 1, 0),
               erc6492MagicBytes \o <<0>>, erc6492MagicBytes \o Zeros(32),
               Tail(erc6492MagicBytes) \o <<100>>,
               WithByte(WrapBytes(Zeros(20), <<222>>, Fill(65, 34)), 300, 0)}}

\* last bytes of the signatures handed to VerifyEOASignature
EOAVBytes == {0, 1, 2, 26, 27, 28, 29, 255}

EOAInputs ==
    [fn : {"VerifyEOASignature"},
     bytes : {<<>>}, kind : {"eoa"}, made : {NoParts},
     hash : Hashes,
     signature : {MkSig("none", ZeroAddr, <<>>, l, k, d, v) :
                    l \in {0} \cup SigLens, k \in KeyAddrs \cup {"invalid"}, d \in Hashes,
                    v \in EOAVBytes},
     expectedAddress : KeyAddrs \cup {StrayAddr}]

BInputs ==
    {[fn |-> "ParseERC6492Signature", bytes |-> i.bytes, kind |-> i.kind, made |-> i.made,
      hash |-> 1, signature |-> MkSig("none", ZeroAddr, <<>>, 65, "K1", 1, 27),
      expectedAddress |-> "K1"] :
        i \in EncodedInputs \cup TruncatedInputs \cup AlteredInputs \cup PlainInputs}
    \cup EOAInputs

\* one call of IsERC6492Signature and of ParseERC6492Signature on the
\* same bytes
BParse ==
    /\ bOut = <<>>
    /\ bIn.fn = "ParseERC6492Signature"
    /\ bOut' = <<[is |-> BytesIsERC6492Signature(bIn.bytes),
                  parsed |-> BytesParseERC6492Signature(bIn.bytes)]>>
    /\ UNCHANGED <<uIn, uOut, bIn, varsReq, varsChain, varsFac, varsCli, varsCon, varsProbe, varsExt>>

\* one call of VerifyEOASignature
BVerifyEOA ==
    /\ bOut = <<>>
    /\ bIn.fn = "VerifyEOASignature"
    /\ bOut' = <<VerifyEOASignature(bIn.hash, bIn.signature, bIn.expectedAddress)>>
    /\ UNCHANGED <<uIn, uOut, bIn, varsReq, varsChain, varsFac, varsCli, varsCon, varsProbe, varsExt>>

InitB ==
    /\ uIn = None /\ uOut = <<>>
    /\ bIn \in BInputs
    /\ bOut = <<>>
    /\ IdleReq /\ IdleChain /\ IdleFac /\ IdleCli /\ InitCon /\ IdleProbe /\ IdleExt

NextB == BParse \/ BVerifyEOA

SpecB == InitB /\ [][NextB]_vars

(***************************************************************************)
(* Matching a payload to requirements (package types)                     *)
(* A JSON document is modelled by whether it parses and by the string      *)
(* fields the matcher reads: scheme and network at the top level, and the  *)
(* five fields of "accepted". A field that is absent reads as the empty    *)
(* string. An address string keeps its letter case (up).                   *)
(***************************************************************************)
\* highest protocol version handed to the matcher
MaxVersion == 3

EmptyAccepted ==
    [scheme |-> "", network |-> "", amount |-> DecStr(FALSE, 0, FALSE),
     asset |-> AssetStr("text", "", FALSE), payTo |-> AddrStr("", FALSE)]

JsonDoc(ok, scheme, network, amount, asset, payTo, accepted) ==
    [ok |-> ok, scheme |-> scheme, network |-> network, amount |-> amount, asset |-> asset,
     payTo |-> payTo, accepted |-> accepted]

\* raw.go lines 24-36, ExtractRequirementsInfo
ExtractRequirementsInfo(data) ==
    IF ~data.ok THEN [err |-> "json", Scheme |-> "", Network |-> ""]
    ELSE [err |-> None, Scheme |-> data.scheme, Network |-> data.network]

\* package types, GetSchemeAndNetwork
GetSchemeAndNetwork(version, payloadBytes) ==
    IF version = 1
    THEN IF ~payloadBytes.ok THEN [err |-> "failed_to_parse_v1_payload", scheme |-> "", network |-> ""]
         ELSE [err |-> None, scheme |-> payloadBytes.scheme, network |-> payloadBytes.network]
    ELSE IF version = 2
    THEN IF ~payloadBytes.ok THEN [err |-> "failed_to_parse_v2_payload", scheme |-> "", network |-> ""]
         ELSE [err |-> None, scheme |-> payloadBytes.accepted.scheme,
               network |-> payloadBytes.accepted.network]
    ELSE [err |-> "unsupported_version", scheme |-> "", network |-> ""]

\* MatchPayloadToRequirements leaving payTo out of the version-2 comparison
MatchPayloadToRequirementsNoPayTo(version, payloadBytes, requirementsBytes) ==
    IF version = 1
    THEN LET p == GetSchemeAndNetwork(1, payloadBytes)
             reqInfo == ExtractRequirementsInfo(requirementsBytes)
         IN IF p.err # None THEN [match |-> FALSE, err |-> p.err]
            ELSE IF reqInfo.err # None THEN [match |-> FALSE, err |-> reqInfo.err]
            ELSE [match |-> p.scheme = reqInfo.Scheme /\ p.network = reqInfo.Network,
                  err |-> None]
    ELSE IF version = 2
    THEN IF ~payloadBytes.ok \/ ~requirementsBytes.ok THEN [match |-> FALSE, err |-> "json"]
         ELSE [match |-> /\ payloadBytes.accepted.scheme = requirementsBytes.scheme
                         /\ payloadBytes.accepted.network = requirementsBytes.network
                         /\ payloadBytes.accepted.amount = requirementsBytes.amount
                         /\ payloadBytes.accepted.asset = requirementsBytes.asset,
               err |-> None]
    ELSE [match |-> FALSE, err |-> "unsupported_version"]

\* package types, MatchPayloadToRequirements: [match, err];
\* Go's == on strings is equality of every character, letter case included
MatchPayloadToRequirements(version, payloadBytes, requirementsBytes) ==
    IF version = 1
    THEN LET p == GetSchemeAndNetwork(1, payloadBytes)
             reqInfo == ExtractRequirementsInfo(requirementsBytes)
         IN IF p.err # None THEN [match |-> FALSE, err |-> p.err]
            ELSE IF reqInfo.err # None THEN [match |-> FALSE, err |-> reqInfo.err]
            ELSE [match |-> p.scheme = reqInfo.Scheme /\ p.network = reqInfo.Network,
                  err |-> None]
    ELSE IF version = 2
    THEN IF ~payloadBytes.ok \/ ~requirementsBytes.ok THEN [match |-> FALSE, err |-> "json"]
         ELSE [match |-> /\ payloadBytes.accepted.scheme = requirementsBytes.scheme
                         /\ payloadBytes.accepted.network = requirementsBytes.network
                         /\ payloadBytes.accepted.amount = requirementsBytes.amount
                         /\ payloadBytes.accepted.asset = requirementsBytes.asset
                         /\ payloadBytes.accepted.payTo = requirementsBytes.payTo,
               err |-> None]
    ELSE [match |-> FALSE, err |-> "unsupported_version"]

MSchemes == {SchemeExact, "other"}
MNetworks == {"eip155:8453", "eip155:84532"}
MAmounts == {DecStr(TRUE, 1, TRUE), DecStr(TRUE, 2, TRUE)}
MAssets == {AssetStr("addr", "USDC_BASE", FALSE), AssetStr("addr", "USDC_BASE", TRUE)}
MPayTos == {AddrStr("P1", FALSE), AddrStr("P1", TRUE), AddrStr("P2", FALSE)}

\* the fields of an "accepted" object or of requirements
MFields ==
    [scheme : MSchemes, network : MNetworks, amount : MAmounts, asset : MAssets,
     payTo : MPayTos]

\* version-1 payloads (scheme and network at the top level), version-2
\* payloads (the fields under "accepted") and bytes that are not JSON
MPayloadDocs ==
    {JsonDoc(TRUE, sc, nw, EmptyAccepted.amount, EmptyAccepted.asset, EmptyAccepted.payTo,
             EmptyAccepted) : sc \in MSchemes, nw \in MNetworks}
    \cup {JsonDoc(TRUE, "", "", EmptyAccepted.amount, EmptyAccepted.asset, EmptyAccepted.payTo, a) :
            a \in MFields}
    \cup {JsonDoc(FALSE, "", "", EmptyAccepted.amount, EmptyAccepted.asset, EmptyAccepted.payTo,
                  EmptyAccepted)}

MRequirementDocs ==
    {JsonDoc(TRUE, r.scheme, r.network, r.amount, r.asset, r.payTo, EmptyAccepted) :
        r \in {f \in MFields : f.amount.n = 1}}
    \cup {JsonDoc(FALSE, "", "", EmptyAccepted.amount, EmptyAccepted.asset, EmptyAccepted.payTo,
                  EmptyAccepted)}

MInputs ==
    [fn : {"MatchPayloadToRequirements"}, version : 0..MaxVersion,
     payloadBytes : MPayloadDocs, requirementsBytes : MRequirementDocs]

\* one call of MatchPayloadToRequirements
MMatch ==
    /\ bOut = <<>>
    /\ bIn.fn = "MatchPayloadToRequirements"
    /\ bOut' = <<MatchPayloadToRequirements(bIn.version, bIn.payloadBytes,
                                            bIn.requirementsBytes)>>
    /\ UNCHANGED <<uIn, uOut, bIn, varsReq, varsChain, varsFac, varsCli, varsCon, varsProbe, varsExt>>

InitM ==
    /\ uIn = None /\ uOut = <<>>
    /\ bIn \in MInputs
    /\ bOut = <<>>
    /\ IdleReq /\ IdleChain /\ IdleFac /\ IdleCli /\ InitCon /\ IdleProbe /\ IdleExt

NextM == MMatch

SpecM == InitM /\ [][NextM]_vars

(***************************************************************************)
(* Resource server: one protected route (protocol state machine)          *)
(* The request carries no PAYMENT-SIGNATURE header ("absent"), one that is *)
(* not base64 of a JSON payload ("undecodable"), a payload the facilitator *)
(* rejects ("rejected") or one it verifies ("valid").                      *)
(***************************************************************************)
\* requests the client sends for the route, the first one included
MaxRequests == 4

HeaderKinds == {"absent", "undecodable", "rejected", "valid"}

\* base64(JSON) of a header value, and its decoding
EncodeHeader(value) == [enc |-> "base64", json |-> value]
DecodeHeader(h) == IF h.enc = "base64" THEN [err |-> None, value |-> h.json]
                   ELSE [err |-> "decode", value |-> None]

NoHeaders == [name \in {"PAYMENT-REQUIRED", "PAYMENT-RESPONSE"} |-> [enc |-> "none", json |-> None]]

\* a request as it arrives: state Unpaid, nothing called, no response yet;
\* answers are the error reasons of the 402 responses the client got before
ServerRequest(route, header, answers) ==
    [route |-> route, header |-> header, number |-> Len(answers) + 1, answers |-> answers,
     state |-> "Unpaid", status |-> 0,
     headers |-> NoHeaders, verify |-> 0, handler |-> 0, settle |-> 0, settled |-> FALSE]

\* the 402 response: PAYMENT-REQUIRED carries the requirements and, after a
\* failed verification, the error reason
PaymentRequired(r, reason) ==
    [r EXCEPT !.state = "Challenged", !.status = 402,
              !.headers["PAYMENT-REQUIRED"] = EncodeHeader([x402Version |-> 2, error |-> reason])]

\* the payment header counts as decoded whenever one is present
PaymentHeaderDecodesAny(header) == header # "absent"

\* the payment header is present and decodes to a payload
PaymentHeaderDecodes(header) == header \notin {"absent", "undecodable"}

\* ProcessHTTPRequest, first part: a route without a policy passes through
\* to the handler; otherwise the header is looked up and decoded
ProcessHTTPRequest ==
    /\ srv # <<>> /\ srv[1].state = "Unpaid"
    /\ srv' = <<IF srv[1].route = "open"
                THEN [srv[1] EXCEPT !.state = "Reply", !.handler = @ + 1, !.status = 200]
                ELSE IF PaymentHeaderDecodes(srv[1].header)
                THEN [srv[1] EXCEPT !.state = "PaymentPresented"]
                ELSE PaymentRequired(srv[1], None)>>
    /\ UNCHANGED <<poll, wrk, varsU, varsReq, varsChain, varsFac, varsCli, varsCon, varsProbe>>

\* ProcessHTTPRequest, second part: the facilitator's Verify decides
ProcessHTTPRequestVerify ==
    /\ srv # <<>> /\ srv[1].state = "PaymentPresented"
    /\ LET r == [srv[1] EXCEPT !.verify = @ + 1]
       IN srv' = <<IF r.header = "valid" THEN [r EXCEPT !.state = "Verified"]
                   ELSE PaymentRequired(r, "verification_failed")>>
    /\ UNCHANGED <<poll, wrk, varsU, varsReq, varsChain, varsFac, varsCli, varsCon, varsProbe>>

\* the downstream handler runs; a failed response is replied without a
\* settlement
Handler ==
    /\ srv # <<>> /\ srv[1].state = "Verified"
    /\ \E ok \in BOOLEAN :
          srv' = <<IF ok THEN [srv[1] EXCEPT !.state = "Handled", !.handler = @ + 1]
                   ELSE [srv[1] EXCEPT !.state = "Reply", !.handler = @ + 1, !.status = 500]>>
    /\ UNCHANGED <<poll, wrk, varsU, varsReq, varsChain, varsFac, varsCli, varsCon, varsProbe>>

\* ProcessSettlement: the facilitator's Settle; its result goes into
\* PAYMENT-RESPONSE on success, a failure is a 5xx
ProcessSettlement ==
    /\ srv # <<>> /\ srv[1].state = "Handled"
    /\ \E success \in BOOLEAN :
          srv' = <<IF success
                   THEN [srv[1] EXCEPT !.state = "Settled", !.settle = @ + 1, !.settled = TRUE,
                                       !.status = 200,
                                       !.headers["PAYMENT-RESPONSE"] =
                                           EncodeHeader([success |-> TRUE])]
                   ELSE [srv[1] EXCEPT !.state = "Reply", !.settle = @ + 1, !.status = 502]>>
    /\ UNCHANGED <<poll, wrk, varsU, varsReq, varsChain, varsFac, varsCli, varsCon, varsProbe>>

\* the client, answered with 402, sends the request again with some header
Retry ==
    /\ srv # <<>> /\ srv[1].status = 402
    /\ srv[1].number < MaxRequests
    /\ \E header \in HeaderKinds :
          srv' = <<ServerRequest(srv[1].route, header,
                                 Append(srv[1].answers,
                                        DecodeHeader(srv[1].headers["PAYMENT-REQUIRED"]).value.error))>>
    /\ UNCHANGED <<poll, wrk, varsU, varsReq, varsChain, varsFac, varsCli, varsCon, varsProbe>>

ServerStep == ProcessHTTPRequest \/ ProcessHTTPRequestVerify \/ Handler \/ ProcessSettlement

InitH ==
    /\ IdleU /\ IdleReq /\ IdleChain /\ IdleFac /\ IdleCli /\ InitCon /\ IdleProbe
    /\ srv \in {<<ServerRequest(route, header, <<>>)>> :
                    route \in {"protected", "open"}, header \in HeaderKinds}
    /\ poll = <<>> /\ wrk = <<>>

NextH == ProcessHTTPRequest \/ ProcessHTTPRequestVerify \/ Handler \/ ProcessSettlement \/ Retry

\* the server's worker keeps running; the client need not retry
SpecH == InitH /\ [][NextH]_vars /\ WF_vars(ServerStep)

(***************************************************************************)
(* ClientSigner.WaitForTransactionReceipt: the polling loop                *)
(* poll[1] holds the caller's context (its deadline, and its error once it *)
(* is done), the ticker, the transaction's receipt status on the node (-1  *)
(* while it is not mined) and the call's result.                           *)
(***************************************************************************)
\* last second of the waiting clock
MaxWait == 5
\* seconds between two ticks of the ticker
TickerPeriod == 2

NoDeadline == MaxWait + 1
ErrCanceled == "context canceled"
ErrDeadlineExceeded == "context deadline exceeded"

\* ctx.Err() at time t for a context that was or was not cancelled so far
CtxErr(p, t) ==
    IF p.ctxErr # None THEN p.ctxErr
    ELSE IF p.deadline # NoDeadline /\ t >= p.deadline THEN ErrDeadlineExceeded
    ELSE None

WaitReturn(p, receipt, err) == <<[p EXCEPT !.pc = "returned", !.receipt = receipt, !.err = err]>>

\* the call is made: without an RPC client it returns at once, otherwise
\* the ticker is started
WaitBegin ==
    /\ poll # <<>> /\ poll[1].pc = "called"
    /\ poll' = IF ~poll[1].client THEN WaitReturn(poll[1], -1, "rpc_client_not_configured")
               ELSE <<[poll[1] EXCEPT !.pc = "select", !.nextTick = now + TickerPeriod]>>
    /\ UNCHANGED <<srv, wrk, varsU, varsReq, varsChain, varsFac, varsCli, varsCon, varsProbe>>

\* TransactionReceipt answers with the context's error instead of
\* looking at the transaction while the context is live
TransactionReceiptIgnoresCtx(p, t, failure) ==
    IF failure # None THEN [err |-> failure, status |-> -1]
    ELSE IF p.mined = -1 THEN [err |-> "not found", status |-> -1]
    ELSE [err |-> None, status |-> p.mined]

\* ethClient.TransactionReceipt(ctx, hash): the context's error when the
\* context is done, ethereum.NotFound while the transaction is not mined,
\* another failure of the RPC, or the receipt
TransactionReceipt(p, t, failure) ==
    IF CtxErr(p, t) # None THEN [err |-> CtxErr(p, t), status |-> -1]
    ELSE IF failure # None THEN [err |-> failure, status |-> -1]
    ELSE IF p.mined = -1 THEN [err |-> "not found", status |-> -1]
    ELSE [err |-> None, status |-> p.mined]

\* select: ctx.Done() returns the context's error, a tick leads to the
\* RPC; when both are ready either is taken
WaitSelect ==
    /\ poll # <<>> /\ poll[1].pc = "select"
    /\ \E branch \in {"done", "tick"} :
          /\ branch = "done" => CtxErr(poll[1], now) # None
          /\ branch = "tick" => now >= poll[1].nextTick
          /\ poll' = IF branch = "done" THEN WaitReturn(poll[1], -1, CtxErr(poll[1], now))
                     ELSE <<[poll[1] EXCEPT !.pc = "rpc", !.nextTick = @ + TickerPeriod]>>
    /\ UNCHANGED <<srv, wrk, varsU, varsReq, varsChain, varsFac, varsCli, varsCon, varsProbe>>

\* the tick's branch: NotFound continues the loop, any other error and the
\* receipt return
WaitPoll ==
    /\ poll # <<>> /\ poll[1].pc = "rpc"
    /\ \E failure \in {None, "rpc_error"} :
          LET r == TransactionReceipt(poll[1], now, failure)
              p == [poll[1] EXCEPT !.polls = @ + 1]
          IN poll' = IF r.err = "not found" THEN <<[p EXCEPT !.pc = "select"]>>
                     ELSE IF r.err # None THEN WaitReturn(p, -1, r.err)
                     ELSE WaitReturn(p, r.status, None)
    /\ UNCHANGED <<srv, wrk, varsU, varsReq, varsChain, varsFac, varsCli, varsCon, varsProbe>>

\* the caller cancels the context
WaitCancel ==
    /\ poll # <<>> /\ CtxErr(poll[1], now) = None /\ poll[1].pc # "returned"
    /\ poll' = <<[poll[1] EXCEPT !.ctxErr = ErrCanceled]>>
    /\ UNCHANGED <<srv, wrk, varsU, varsReq, varsChain, varsFac, varsCli, varsCon, varsProbe>>

\* the transaction is mined, with either status
WaitMined ==
    /\ poll # <<>> /\ poll[1].mined = -1
    /\ \E st \in {TxStatusSuccess, TxStatusFailed} : poll' = <<[poll[1] EXCEPT !.mined = st]>>
    /\ UNCHANGED <<srv, wrk, varsU, varsReq, varsChain, varsFac, varsCli, varsCon, varsProbe>>

\* a second passes; a deadline that is reached ends the context
WaitClock ==
    /\ poll # <<>> /\ now < MaxWait
    /\ now' = now + 1
    /\ poll' = <<[poll[1] EXCEPT !.ctxErr = CtxErr(poll[1], now + 1)]>>
    /\ UNCHANGED <<code, txLog, srv, wrk, varsU, varsReq, varsFac, varsCli, varsCon, varsProbe>>

InitW ==
    /\ IdleU /\ IdleReq /\ IdleChain /\ IdleFac /\ IdleCli /\ InitCon /\ IdleProbe
    /\ srv = <<>> /\ wrk = <<>>
    /\ poll \in {<<[pc |-> "called", client |-> client, deadline |-> deadline, ctxErr |-> None,
                    nextTick |-> 0, mined |-> mined, polls |-> 0, receipt |-> -1, err |-> None]>> :
                    client \in BOOLEAN, deadline \in (1..MaxWait) \cup {NoDeadline},
                    mined \in {-1, TxStatusSuccess, TxStatusFailed}}

WaitStep == WaitBegin \/ WaitSelect \/ WaitPoll

NextW == WaitBegin \/ WaitSelect \/ WaitPoll \/ WaitCancel \/ WaitMined \/ WaitClock

\* the caller's goroutine runs and time passes; nothing forces the
\* transaction to be mined or the caller to cancel
SpecW == InitW /\ [][NextW]_vars /\ WF_vars(WaitStep) /\ WF_vars(WaitClock)

\* the contract under calls from operators and strangers
InitC ==
    /\ IdleU /\ IdleReq /\ IdleChain /\ IdleFac /\ IdleCli
    /\ InitCon /\ IdleProbe /\ IdleExt

NextC ==
    \/ tokenTransferWithAuthorization
    \/ tokenCancelAuthorization
    \/ pauseContract
    \/ unPauseContract
    \/ setOperator
    \/ approve
    \/ Tick

SpecC == InitC /\ [][NextC]_vars

(***************************************************************************)
(* Properties                                                              *)
(***************************************************************************)
\* the transactions sent by call number n
TxOfCall(n) == {i \in 1..Len(txLog) : txLog[i].call = n}

\* the payload passes every check Verify makes before the amount check
ReachesAmountCheck ==
    /\ pay.accepted.scheme = "exact"
    /\ pay.accepted.network = req.network
    /\ GetNetworkConfig(req.network).err = None
    /\ pay.signature.form # "empty"
    /\ pay.auth.To.a = req.payTo.a

\* C1: a transaction (factory deployment or settlePayment) is sent only
\* inside Settle and only after the Verify that Settle re-ran succeeded;
\* a Verify call sends none and a Settle whose Verify failed sends none.
C1_TxOnlyAfterVerifiedSettle ==
    /\ \A i \in 1..Len(txLog) :
          txLog[i].kind \in {"factory", "settlePayment"} =>
              txLog[i].op = "settle" /\ txLog[i].verified
    /\ fac.pc # "idle" => fac.op = "settle" /\ vres # <<>> /\ ~vres[1].err
    /\ fac.op = "verify" => TxOfCall(fac.n) = {}
    /\ (fac.op = "settle" /\ vres[1].err) => TxOfCall(fac.n) = {}

\* C1 witness: after a Verify call, a Settle call has written settlePayment
C1_Witness ==
    \E i \in 1..Len(txLog) : txLog[i].kind = "settlePayment" /\ txLog[i].call = 2

\* C4 as claimed: Verify answers isValid = true only at a time inside the
\* window [validAfter, validBefore]. The code has no such check.
C4_ValidOnlyInsideWindow ==
    (vres # <<>> /\ vres[1].isValid) =>
        (pay.auth.ValidAfter <= vres[2] /\ vres[2] <= pay.auth.ValidBefore)

\* C5: a payload that reaches the amount check is rejected with
\* insufficient_amount and the payer exactly when its value is below the
\* required amount; with value = required (or more) and the payer's
\* signature over the EIP-3009 digest it is accepted.
C5_AmountBoundary ==
    (vres # <<>> /\ ReachesAmountCheck /\ pay.auth.Value.ok /\ req.amount.ok) =>
        /\ pay.auth.Value.n < req.amount.n =>
              /\ vres[1].err /\ vres[1].reason = "insufficient_amount"
              /\ vres[1].payer = pay.auth.From
        /\ pay.auth.Value.n >= req.amount.n => vres[1].reason # "insufficient_amount"
        /\ ( /\ pay.auth.Value.n >= req.amount.n
             /\ pay.type = "authorizationEip3009"
             /\ pay.signature = EOASig(pay.auth.From.a, Digest3009(pay.auth, req)) ) =>
              vres[1].isValid /\ vres[1].payer = pay.auth.From

\* C5 witness: value = required - 1 was rejected
C5_Witness ==
    /\ vres # <<>> /\ pay.auth.Value.ok /\ pay.auth.Value.n = req.amount.n - 1
    /\ vres[1].reason = "insufficient_amount"

\* C6: a settlePayment written by a Settle call that saw the payer without
\* code follows a factory transaction of that call whose receipt has
\* status 1; a factory transaction is sent only with deployment enabled
\* and after GetCode returned empty code; a call whose factory transaction
\* did not succeed writes no settlePayment and ends with
\* smart_wallet_deployment_failed.
C6_DeployThenSettle ==
    /\ \A j \in 1..Len(txLog) :
          (txLog[j].kind = "settlePayment" /\ txLog[j].saw = "empty") =>
              \E i \in 1..(j - 1) : /\ txLog[i].kind = "factory"
                                    /\ txLog[i].call = txLog[j].call
                                    /\ txLog[i].status = 1
    /\ \A i \in 1..Len(txLog) :
          txLog[i].kind = "factory" =>
              /\ cfgDeploy /\ txLog[i].saw = "empty"
              /\ txLog[i].status = 0 =>
                    \A j \in TxOfCall(txLog[i].call) : txLog[j].kind # "settlePayment"
              /\ ( /\ txLog[i].call = fac.n /\ fac.pc = "idle" /\ txLog[i].status # 1
                   /\ \A j \in TxOfCall(fac.n) : txLog[j].kind # "settlePayment" ) =>
                    /\ sres # <<>> /\ sres[1].err
                    /\ sres[1].reason = "smart_wallet_deployment_failed"

\* C6 witness: factory receipt with status 1, then settlePayment
C6_Witness ==
    \E i, j \in 1..Len(txLog) :
        /\ i < j /\ txLog[i].call = txLog[j].call
        /\ txLog[i].kind = "factory" /\ txLog[i].status = 1
        /\ txLog[j].kind = "settlePayment"

\* the payload carries an ERC-6492 envelope with deployment info
CarriesDeploymentInfo ==
    /\ pay.signature.form = "hex" /\ pay.signature.sig.wrap = "ok"
    /\ pay.signature.sig.factory # ZeroAddr /\ Len(pay.signature.sig.cd) > 0

\* C7: with deployment disabled, for a payload of an undeployed wallet
\* with deployment info, Verify answers valid (unless an RPC fails) and
\* Settle, having seen empty code, fails with
\* invalid_exact_evm_payload_undeployed_smart_wallet and the payer, and
\* sends no transaction.
C7_UndeployedDisabled ==
    ~cfgDeploy =>
        /\ \A i \in 1..Len(txLog) : txLog[i].kind # "factory"
        /\ ( /\ vres # <<>> /\ ReachesAmountCheck /\ pay.auth.Value.ok
             /\ pay.auth.Value.n >= req.amount.n /\ pay.type # "other"
             /\ CarriesDeploymentInfo /\ pay.auth.From.a \notin code
             /\ vres[1].reason # "failed_to_verify_signature" ) =>
              vres[1].isValid /\ vres[1].payer = pay.auth.From
        /\ (fac.op = "settle" /\ fac.pc = "idle" /\ fac.saw = "empty") =>
              /\ vres[1].isValid
              /\ sres = <<SettleError("invalid_exact_evm_payload_undeployed_smart_wallet",
                                      pay.auth.From, pay.accepted.network, 0)>>
              /\ TxOfCall(fac.n) = {}

\* C7 witness: Settle refused the undeployed wallet
C7_Witness ==
    /\ ~cfgDeploy /\ fac.op = "settle" /\ fac.pc = "idle" /\ fac.saw = "empty"
    /\ CarriesDeploymentInfo /\ vres[1].isValid /\ sres # <<>> /\ sres[1].err

\* the harness's signature parses, to a 65-byte inner signature without
\* factory
UParses == uIn.signature.wrap # "bad"
UPlain65 ==
    /\ uIn.signature.len = 65
    /\ (uIn.signature.wrap = "none" \/ uIn.signature.factory = ZeroAddr)

\* C8: on an address without code and an envelope with deployment info,
\* universal verification returns (true, envelope, no error) when
\* allowUndeployed, and false with the undeployed-smart-wallet error
\* otherwise.
C8_AllowUndeployed ==
    ( /\ uOut # <<>> /\ uIn.getCode = "empty" /\ uIn.signature.wrap = "ok"
      /\ uIn.signature.factory # ZeroAddr /\ Len(uIn.signature.cd) > 0 ) =>
        IF uIn.allowUndeployed
        THEN uOut[1].valid /\ uOut[1].hasData /\ uOut[1].err = None
        ELSE /\ ~uOut[1].valid
             /\ uOut[1].err = "invalid_exact_evm_payload_undeployed_smart_wallet"

\* C8 witness: the undeployed wallet was accepted under allowUndeployed
C8_Witness ==
    /\ uOut # <<>> /\ uIn.getCode = "empty" /\ uIn.signature.wrap = "ok"
    /\ uIn.signature.factory # ZeroAddr /\ Len(uIn.signature.cd) > 0
    /\ uIn.allowUndeployed /\ uOut[1].valid

\* C9: a signature whose parsed inner signature has 65 bytes and whose
\* factory is zero is decided by EOA recovery alone, without any chain RPC.
C9_FastPathNoRPC ==
    (uOut # <<>> /\ UParses /\ UPlain65) =>
        /\ uOut[1].calls = <<>>
        /\ LET r == VerifyEOASignature(uIn.hash, InnerOf(uIn.signature), uIn.signerAddress.a)
           IN uOut[1].valid = r.valid /\ uOut[1].err = r.err

\* C9 witness: a 65-byte signature for an address that has code was
\* decided, and rejected, by recovery
C9_Witness ==
    /\ uOut # <<>> /\ UParses /\ UPlain65 /\ uIn.getCode = "code"
    /\ uIn.read = "magic" /\ ~uOut[1].valid /\ uOut[1].err = None

\* C10 as claimed: for a signer with code, valid is true when
\* isValidSignature returns the magic and false when it returns other 4
\* bytes, for every signature that parses.
C10_AnyLength ==
    (uOut # <<>> /\ UParses /\ uIn.getCode = "code" /\ uIn.read \in {"magic", "other4"}) =>
        uOut[1].valid = (uIn.read = "magic")

\* C10 amended: the same, for every signature that parses except those
\* with a 65-byte inner signature and zero factory (decided by recovery).
C10_Not65 ==
    ( /\ uOut # <<>> /\ UParses /\ ~UPlain65
      /\ uIn.getCode = "code" /\ uIn.read \in {"magic", "other4"} ) =>
        /\ uOut[1].valid = (uIn.read = "magic")
        /\ uOut[1].err = None

\* C10 witness: a longer signature accepted through EIP-1271
C10_Witness ==
    /\ uOut # <<>> /\ UParses /\ ~UPlain65 /\ uIn.getCode = "code"
    /\ uIn.read = "magic" /\ uOut[1].valid

\* C2: a payload built by the client on the EIP-3009 flow for signer A
\* and requirements R is verified by the facilitator against R as valid,
\* with payer A.
C2_ClientPayloadVerifies ==
    ( /\ vres # <<>> /\ cres # <<>> /\ cres[1].err = None
      /\ cres[1].payload.type = "authorizationEip3009" ) =>
        vres[1].isValid /\ vres[1].payer = cli.signer

\* C2 witness: a payload signed under a domain name taken from R.extra
\* was verified
C2_Witness ==
    /\ vres # <<>> /\ cres # <<>> /\ cres[1].err = None
    /\ cres[1].payload.type = "authorizationEip3009"
    /\ req.extra.name # None /\ vres[1].isValid

\* a call of tokenTransferWithAuthorization on the ERC-20 path for a
\* triple that an earlier successful call had already moved tokens under
LaterTransferCall ==
    call.fn = "transfer" /\ call.needApprove /\ call.movedBefore

\* C3 as claimed: on the ERC-20 path every triple moves tokens at most
\* once, the successful call marks it used, and every later call with the
\* triple (here: one the modifiers admit) reverts with NonceUsed.
C3_LaterCallsRevertNonceUsed ==
    /\ \A t \in Triples : xfer[t] <= 1 /\ (xfer[t] = 1 => t \in con.used)
    /\ (LaterTransferCall /\ call.admitted) => call.result = "NonceUsed"

\* C3 amended: at most once, marked used by the successful call, and
\* every later call with the triple reverts without moving tokens: with
\* NonceUsed when the modifiers admit it and the block time is within its
\* window, with the error of the modifier or of the window check otherwise.
C3_AtMostOnce ==
    /\ \A t \in Triples : xfer[t] <= 1 /\ (xfer[t] = 1 => t \in con.used)
    /\ LaterTransferCall =>
          /\ call.result # "ok"
          /\ xfer[<<call.token, call.from, call.nonce>>] = 1
          /\ ( /\ call.admitted
               /\ call.validAfter <= call.at /\ call.at <= call.validBefore ) =>
                call.result = "NonceUsed"
          /\ (call.admitted /\ call.at < call.validAfter) =>
                call.result = "AuthorizationNotYetValid"
          /\ (call.admitted /\ call.at >= call.validAfter /\ call.at > call.validBefore) =>
                call.result = "AuthorizationExpired"
          /\ ~call.admitted => call.result \in {"EnforcedPause", "InvalidOperator"}

\* C3 witness: a replay within the window was refused with NonceUsed
C3_Witness ==
    /\ LaterTransferCall /\ call.result = "NonceUsed"
    /\ tok.allowance[call.token, call.from] > 0

\* the payload carries an ERC-6492 envelope with empty factoryCalldata
EmptyCalldataEnvelope ==
    /\ pay.signature.form = "hex" /\ pay.signature.sig.wrap = "ok"
    /\ pay.signature.sig.cd = <<>>

\* the payload reaches the signature check of Verify on a given flow
ReachesSignatureCheck ==
    /\ ReachesAmountCheck /\ pay.auth.Value.ok /\ req.amount.ok
    /\ pay.auth.Value.n >= req.amount.n
    /\ pay.signature.form = "hex"

\* C11: an envelope with empty factoryCalldata carries no deployment info.
\* Verify of such a payload for a payer without code, on the EIP-3009
\* flow and with no RPC failure, answers what EOA recovery on the inner
\* signature answers (valid for the payer's own key, invalid_signature
\* otherwise, never the acceptance of an undeployed wallet); Settle of it
\* makes no GetCode check of its own and sends no factory transaction.
C11_EmptyCalldataNoDeploymentInfo ==
    EmptyCalldataEnvelope =>
        /\ ( /\ vres # <<>> /\ ReachesSignatureCheck
             /\ pay.type = "authorizationEip3009"
             /\ pay.auth.From.a \notin code
             /\ vres[1].reason # "failed_to_verify_signature" ) =>
              LET r == VerifyEOASignature(Digest3009(pay.auth, req),
                                          InnerOf(pay.signature.sig), HexToAddress(pay.auth.From))
              IN /\ vres[1].isValid = r.valid
                 /\ ~r.valid => vres[1].reason = "invalid_signature"
        /\ fac.saw = None
        /\ fac.pc \notin {"getcode", "deploy_send", "deploy_wait"}
        /\ \A i \in 1..Len(txLog) : txLog[i].kind # "factory"

\* C11 witness: Settle of a payload whose envelope names a factory and has
\* empty calldata, for a payer without code, went from its Verify (EOA
\* recovery accepted the payer's key) straight to settlePayment
C11_Witness ==
    /\ EmptyCalldataEnvelope /\ pay.signature.sig.factory # ZeroAddr
    /\ pay.auth.From.a \notin code
    /\ fac.op = "settle" /\ fac.pc = "wait" /\ vres[1].isValid
    /\ txLog[fac.tx].kind = "settlePayment"

\* the harness's call reached EIP-1271 verification
UReaches1271 == uOut # <<>> /\ UParses /\ ~UPlain65 /\ uIn.getCode = "code"

\* C12 as claimed: VerifyEIP1271Signature answers true exactly when the
\* call returns the magic; other returned bytes and a revert with data
\* give false without error; only a revert without data or an RPC failure
\* gives an error. The code returns an error for every failed call and
\* for a return shorter than 4 bytes.
C12_FalseWithoutError ==
    UReaches1271 =>
        /\ uOut[1].valid = (uIn.read = "magic")
        /\ uIn.read \in {"other4", "short", "revert_data"} => uOut[1].err = None
        /\ uOut[1].err # None => uIn.read \in {"revert_empty", "rpc_error"}

\* C13: when the Verify that Settle runs fails with reason R, payer P and
\* network N, Settle returns at once the settle error with R, P, N and
\* the empty transaction hash.
C13_VerifyErrorPromoted ==
    (fac.op = "settle" /\ vres # <<>> /\ vres[1].err) =>
        /\ fac.pc = "idle"
        /\ sres # <<>> /\ sres[1].err
        /\ sres[1].reason = vres[1].reason
        /\ sres[1].payer = vres[1].payer
        /\ sres[1].network = vres[1].network
        /\ sres[1].transaction = 0
        /\ TxOfCall(fac.n) = {}

\* C13 witness: Settle returned invalid_signature with the payer Verify named
C13_Witness ==
    /\ fac.op = "settle" /\ vres # <<>> /\ vres[1].err
    /\ vres[1].reason = "invalid_signature" /\ vres[1].payer # NoPayer
    /\ sres # <<>> /\ sres[1].payer = vres[1].payer

\* the settlePayment transactions written by the call being served
SentByCall == {i \in TxOfCall(fac.n) : txLog[i].kind = "settlePayment"}

\* a Settle call has returned
SettleReturned == fac.op = "settle" /\ fac.pc = "idle" /\ sres # <<>>

\* C14: Settle answers success exactly when the receipt of its
\* settlePayment has status 1, with the hash the write returned, the
\* network and the payer Verify reported; on a receipt with status 0 it
\* answers transaction_failed with that hash; on a failed write it answers
\* failed_to_execute_transfer without hash.
C14_SettleOutcome ==
    SettleReturned =>
        /\ sres[1].success =>
              /\ sres[1].transaction \in SentByCall
              /\ sres[1].transaction = fac.tx
              /\ txLog[sres[1].transaction].status = 1
              /\ sres[1].network = pay.accepted.network
              /\ vres[1].isValid /\ sres[1].payer = vres[1].payer
        /\ sres[1].reason = "transaction_failed" =>
              /\ sres[1].err
              /\ sres[1].transaction \in SentByCall
              /\ sres[1].transaction = fac.tx
              /\ txLog[sres[1].transaction].status = 0
        /\ sres[1].reason = "failed_to_execute_transfer" =>
              sres[1].err /\ sres[1].transaction = 0 /\ SentByCall = {}
        /\ SentByCall # {} =>
              /\ sres[1].reason \in {None, "transaction_failed", "failed_to_get_receipt"}
              /\ sres[1].reason # "failed_to_get_receipt" =>
                    sres[1].success = (txLog[fac.tx].status = 1)
        /\ (SentByCall = {} /\ vres[1].isValid /\ fac.saw \notin {"empty"} \cup RPCFailures) =>
              sres[1].reason = "failed_to_execute_transfer"

\* C14 witness: Settle answered success with the hash of its write
C14_Witness ==
    /\ SettleReturned /\ sres[1].success
    /\ sres[1].transaction \in SentByCall /\ sres[1].payer = pay.auth.From

\* C15: once the write of settlePayment has returned a hash, a Settle that
\* ends because the request is cancelled or the wait for the receipt
\* fails answers an error carrying that hash; the transaction stays in
\* the chain's log and is mined as any other, so the error leaves the
\* outcome of the transfer open.
C15_ErrorCarriesHash ==
    (SettleReturned /\ SentByCall # {}) =>
        /\ sres[1].err => sres[1].transaction \in SentByCall /\ sres[1].transaction = fac.tx
        /\ fac.met # None =>
              /\ sres[1].err /\ sres[1].reason = "failed_to_get_receipt"
              /\ sres[1].transaction \in SentByCall
              /\ txLog[sres[1].transaction].kind = "settlePayment"
              /\ txLog[sres[1].transaction].args[2] = HexToAddress(pay.auth.From)

\* C15 witness: Settle answered an error after its context was cancelled
\* during the wait, and the transfer it had written succeeded on chain
C15_Witness ==
    /\ SettleReturned /\ fac.met = "context_canceled" /\ sres[1].err
    /\ sres[1].transaction \in SentByCall
    /\ txLog[sres[1].transaction].status = 1

\* the kind of an error that is the context's own (ctx.Err()) and no
\* error kind of the payment domain
ErrContext == "context canceled"

\* C16 as claimed: a Verify, Settle or capability probe whose context was
\* cancelled during one of its RPCs ends with the context's error: no
\* domain error kind, no domain result (an answer, a cached capability).
\* The code never looks at the context.
C16_CancelPropagates ==
    /\ (vres # <<>> /\ vres[3] = "context_canceled") =>
          /\ vres[1].err /\ vres[1].reason = ErrContext
          /\ vres[1].store = "absent"
    /\ (SettleReturned /\ (fac.met = "context_canceled" \/ vres[3] = "context_canceled")) =>
          sres[1].err /\ sres[1].reason = ErrContext

\* the payload carries the payer's own 65-byte signature over the
\* EIP-3009 digest of the token
SignedByPayerFor3009 ==
    pay.signature = EOASig(pay.auth.From.a, Digest3009(pay.auth, req))

\* C17 as claimed: a Verify that met a system failure does not report a
\* signature failure (here: for a payload whose signature is the payer's).
\* The capability probe swallows the failure and sends the payload down
\* the ERC-20 flow, where its signature does not match.
C17_SystemFailureNotSignatureFailure ==
    (vres # <<>> /\ vres[3] # None /\ ReachesSignatureCheck /\ SignedByPayerFor3009) =>
        vres[1].reason # "invalid_signature"

\* the payload reaches the choice of flow in Verify
ReachesTypeCheck ==
    /\ ReachesAmountCheck /\ pay.auth.Value.ok /\ req.amount.ok
    /\ pay.auth.Value.n >= req.amount.n

\* C18: a payload with a type is hashed under the domain its type names
\* (authorizationEip3009: the token's, authorization: the Facilitator's),
\* any other type is rejected with invalid_payload_type, and a Verify of
\* a typed payload neither calls the capability probe nor stores in its
\* cache.
C18_TypeSelectsDomain ==
    (vres # <<>> /\ ReachesTypeCheck /\ pay.type # None) =>
        /\ vres[1].store = "absent"
        /\ vres[1].calls = <<>> \/ vres[1].calls[1] # "ReadContract"
        /\ pay.type \notin {"authorizationEip3009", "authorization"} =>
              vres[1].reason = "invalid_payload_type" /\ vres[1].calls = <<>>
        /\ pay.type = "authorizationEip3009" =>
              /\ SignedByPayerFor3009 => vres[1].isValid
              /\ pay.signature = EOASig(pay.auth.From.a, DigestERC20(pay.auth, req)) =>
                    vres[1].reason = "invalid_signature"
        /\ pay.type = "authorization" =>
              /\ pay.signature = EOASig(pay.auth.From.a, DigestERC20(pay.auth, req)) =>
                    vres[1].isValid
              /\ SignedByPayerFor3009 => vres[1].reason = "invalid_signature"

\* C18 witness: a payload of type authorization signed under the
\* Facilitator domain was accepted
C18_Witness ==
    /\ vres # <<>> /\ pay.type = "authorization"
    /\ pay.signature = EOASig(pay.auth.From.a, DigestERC20(pay.auth, req))
    /\ vres[1].isValid /\ vres[1].calls = <<>>

\* C19: Verify rejects a payload whose accepted.scheme is not 'exact' with
\* invalid_scheme, and one with that scheme whose accepted.network is not
\* the requirements' with network_mismatch, having made no RPC.
C19_SchemeThenNetwork ==
    vres # <<>> =>
        /\ pay.accepted.scheme # "exact" =>
              /\ vres[1].err /\ vres[1].reason = "invalid_scheme"
              /\ vres[1].calls = <<>> /\ vres[1].store = "absent"
        /\ (pay.accepted.scheme = "exact" /\ pay.accepted.network # req.network) =>
              /\ vres[1].err /\ vres[1].reason = "network_mismatch"
              /\ vres[1].calls = <<>> /\ vres[1].store = "absent"
        /\ vres[1].reason \in {"invalid_scheme", "network_mismatch"} =>
              (pay.accepted.scheme # "exact" \/ pay.accepted.network # req.network)

\* C19 witness: a payload wrong in scheme and network was rejected with
\* invalid_scheme
C19_Witness ==
    /\ vres # <<>> /\ pay.accepted.scheme # "exact"
    /\ pay.accepted.network # req.network /\ vres[1].reason = "invalid_scheme"

\* the payload passes the checks Verify makes before the recipient check
ReachesRecipientCheck ==
    /\ pay.accepted.scheme = "exact"
    /\ pay.accepted.network = req.network
    /\ GetNetworkConfig(req.network).err = None
    /\ pay.signature.form # "empty"

\* C20: Verify rejects with recipient_mismatch exactly the payloads whose
\* authorization.to differs from requirements.payTo in more than letter
\* case.
C20_RecipientCaseInsensitive ==
    (vres # <<>> /\ ReachesRecipientCheck) =>
        (vres[1].reason = "recipient_mismatch") = (pay.auth.To.a # req.payTo.a)

\* C20 witness: a recipient written in another case than payTo was accepted
C20_Witness ==
    /\ vres # <<>> /\ ReachesRecipientCheck
    /\ pay.auth.To # req.payTo /\ pay.auth.To.a = req.payTo.a
    /\ vres[1].isValid

\* C21: once VerifyEIP3009Support has returned a value for a key, every
\* call for that key that begins later returns the same value, however
\* the calls of concurrent goroutines interleave
C21_WriteOnce ==
    \A p \in Probers :
        prober[p].pc = "done" => \A v \in prober[p].prior : prober[p].ret = v

\* the words of an error message that show the function exists, in the
\* spellings the messages use
KeywordSpellings ==
    {"signature", "SIGNATURE", "signatures", "authorization", "nonce", "Nonce"}

SaysKeyword(out) ==
    \E i \in DOMAIN ErrorString(out) : ErrorString(out)[i] \in KeywordSpellings

\* C22: a call that probed (the key was not cached) returns true when the
\* simulated call succeeded or failed with a message holding signature,
\* authorization or nonce in any letter case, and false for every other
\* failure
C22_ProbeClassification ==
    \A p \in Probers :
        (prober[p].pc = "done" /\ prober[p].out # None)
            => (prober[p].ret <=> (prober[p].out = "ok" \/ SaysKeyword(prober[p].out)))

\* a probe that met the keyword in upper case concluded 'supported'
C22_Witness ==
    \E p \in Probers :
        /\ prober[p].pc = "done" /\ prober[p].out = "err_upper"
        /\ prober[p].ret

\* the asset the client is asked to pay with, and its capability-cache
\* entry
ClientAsset == GetAssetInfo(GetNetworkConfig(req.network), req.asset)
ClientCacheEntry == cache[CacheKey(GetNetworkConfig(req.network).ChainID, ClientAsset.Address)]

\* the client's call got past validation and chose a flow
ClientChoseFlow ==
    \/ cli.pc \in {"allowance", "approve", "wait"}
    \/ cres # <<>> /\ cres[1].err \notin {"unsupported_network", "unsupported_network_config",
                                            "invalid_amount"}

\* the client's call is on, or returned from, the ERC-20 flow
ClientOnERC20Flow ==
    \/ cli.pc \in {"allowance", "approve", "wait"}
    \/ /\ cres # <<>>
       /\ \/ cres[1].err \in {"failed_to_check_allowance", "invalid_allowance_type",
                               "failed_to_send_approve", "failed_to_wait_for_approve_receipt",
                               "approve_transaction_failed"}
          \/ cres[1].err = None /\ cres[1].payload.type = "authorization"
          \/ /\ cres[1].err = "failed_to_sign_authorization"
             /\ \E i \in DOMAIN cli.calls : cli.calls[i] = "allowance"

\* C23: CreatePaymentPayload takes the EIP-3009 flow exactly when the
\* asset's static flag is set or the capability probe answered true, and
\* the ERC-20 flow otherwise; an EIP-3009 payload is tagged
\* authorizationEip3009 and signed under the token's domain, an ERC-20
\* payload is tagged authorization, echoes the token, has needApprove set
\* and is signed under the Facilitator domain; with the static flag set
\* no probe call is made.
C23_FlowChoice ==
    ClientChoseFlow =>
        /\ ClientOnERC20Flow <=> ~(ClientAsset.SupportsEIP3009 \/ ClientCacheEntry = "yes")
        /\ ClientAsset.SupportsEIP3009 =>
              (cli.calls = <<>> /\ ClientCacheEntry = "absent")
        /\ (cres # <<>> /\ cres[1].err = None) =>
              LET payload == cres[1].payload
                  dig == payload.signature.sig.dig
              IN IF ClientOnERC20Flow
                 THEN /\ payload.type = "authorization"
                      /\ payload.auth.Token = ClientAsset.Address
                      /\ payload.auth.NeedApprove
                      /\ dig.name = "Facilitator" /\ dig.vc = FacilitatorContractAddress
                      /\ dig.primary = "tokenTransferWithAuthorization"
                 ELSE /\ payload.type = "authorizationEip3009"
                      /\ dig.vc = HexToAddress(ClientAsset.Address)
                      /\ dig.primary = "TransferWithAuthorization"

\* C23 witness: a token without the static flag, probed as supporting,
\* was paid on the EIP-3009 flow
C23_Witness ==
    /\ cres # <<>> /\ cres[1].err = None
    /\ ~ClientAsset.SupportsEIP3009 /\ ClientCacheEntry = "yes"
    /\ cres[1].payload.type = "authorizationEip3009"

\* the approve transactions in the log
Approves == {i \in 1..Len(txLog) : txLog[i].kind = "approve"}

\* the client's call returned an ERC-20 payload
ClientSignedERC20 ==
    cres # <<>> /\ cres[1].err = None /\ cres[1].payload.type = "authorization"

\* C24: on the ERC-20 flow with an allowance below the amount, the
\* authorization is signed only after an approve transaction was sent and
\* its receipt shows a non-zero status; a failed approve write, a failed
\* receipt wait and a receipt of status 0 end the call with an error and
\* no signed payload; with an allowance that covers the amount no approve
\* is sent.
C24_ApproveBeforeSign ==
    /\ ClientSignedERC20 =>
          IF cli.allowance < req.amount.n
          THEN /\ cli.tx \in Approves
               /\ txLog[cli.tx].args = <<ClientAsset.Address.a, FacilitatorContractAddress,
                                         req.amount.n>>
               /\ txLog[cli.tx].status \notin {-1, 0}
          ELSE Approves = {}
    /\ Approves # {} => cli.allowance < req.amount.n
    /\ (cres # <<>> /\ cli.tx \in Approves /\ txLog[cli.tx].status = 0) =>
          (cres[1].err \in {"approve_transaction_failed", "failed_to_wait_for_approve_receipt"}
           /\ pay = NoPayload)
    /\ (cres # <<>> /\ cres[1].err \in {"failed_to_send_approve",
                                         "failed_to_wait_for_approve_receipt",
                                         "approve_transaction_failed"}) =>
          (cres[1].payload = NoPayload /\ pay = NoPayload)
    /\ (cres # <<>> /\ Approves = {} /\ cli.calls # <<>>
           /\ cli.calls[Len(cli.calls)] = "approve") =>
          cres[1].err = "failed_to_send_approve"

\* C24 witness: an ERC-20 payload signed after a confirmed approve
C24_Witness ==
    /\ ClientSignedERC20 /\ cli.allowance < req.amount.n
    /\ cli.tx \in Approves /\ txLog[cli.tx].status = TxStatusSuccess

Settled == {t \in Triples : xfer[t] > 0}

\* a call of the client reads an allowance after exactly one approve was
\* confirmed and exactly one payment was settled: the call for the second
\* payment
SecondPaymentReadsAllowance ==
    /\ Cardinality(Settled) = 1
    /\ Cardinality({i \in Approves : txLog[i].status = TxStatusSuccess}) = 1
    /\ cli.pc = "allowance" /\ cli'.pc # "allowance"
    /\ ~(cres' # <<>> /\ cres'[1].err \in {"failed_to_check_allowance",
                                             "invalid_allowance_type"})

\* C25 as stated: once a first payment on the ERC-20 flow was approved
\* and settled, the call for a second payment of the same amount by the
\* same payer in the same token goes on to sign without an approve
C25_NoSecondApprove ==
    [][SecondPaymentReadsAllowance => cli'.pc # "approve"]_vars

\* C25 amended: the settlement consumed the approved allowance, so the
\* call for the second payment finds it below the amount and goes on to
\* approve again before it signs
C25_SecondApproveNeeded ==
    [][SecondPaymentReadsAllowance => (cli'.pc = "approve" /\ cli'.allowance < req.amount.n)]_vars

\* C25 witness: a second payment signed after a second confirmed approve,
\* both sent by the client, with one payment settled in between
C25_Witness ==
    /\ Cardinality(Settled) = 1 /\ ClientSignedERC20
    /\ Len(txLog) = 2 /\ cli.tx = 2
    /\ txLog[1].kind = "approve" /\ txLog[1].status = TxStatusSuccess
    /\ txLog[2].kind = "approve" /\ txLog[2].status = TxStatusSuccess
    /\ cli.allowance = 0

\* the signature-function harness has called fn
Called(fn) == bOut # <<>> /\ bIn.fn = fn

\* C28: IsERC6492Signature(sig) holds exactly when sig has at least 32
\* bytes and its last 32 bytes are the magic; for a signature that is not
\* wrapped ParseERC6492Signature returns, without error, the signature
\* itself as inner, a zero factory and an empty factoryCalldata
C28_IsWrappedAndPassThrough ==
    Called("ParseERC6492Signature") =>
        LET sig == bIn.bytes
            n == Len(sig)
            wrapped == n >= 32 /\ \A i \in 1..32 : sig[n - 32 + i] = erc6492MagicBytes[i]
            out == bOut[1]
        IN /\ out.is = wrapped
           /\ ~wrapped =>
                /\ out.parsed.err = None
                /\ out.parsed.InnerSignature = sig
                /\ out.parsed.Factory = Zeros(20)
                /\ out.parsed.FactoryCalldata = <<>>

C28_Witness ==
    /\ Called("ParseERC6492Signature")
    /\ Len(bIn.bytes) > 32
    /\ ~bOut[1].is
    /\ bOut[1].parsed.InnerSignature = bIn.bytes

\* the bytes p decode as (address, bytes, bytes): three head words, and
\* each of the two offsets leads to a length word and to that many bytes
\* inside p
Decodes(p) ==
    /\ Len(p) >= 96
    /\ \A h \in {32, 64} :
          LET off == WordValue(Slice(p, h, h + 32))
          IN /\ off + 32 <= Len(p)
             /\ off + 32 + WordValue(Slice(p, off, off + 32)) <= Len(p)

\* C29: parsing abi.encode(factory, factoryCalldata, inner) followed by
\* the magic returns exactly these three components, and a signature that
\* ends in the magic and whose prefix does not decode as (address, bytes,
\* bytes) yields an error
C29_RoundTripAndMalformed ==
    Called("ParseERC6492Signature") =>
        LET sig == bIn.bytes
            parsed == bOut[1].parsed
        IN /\ bIn.kind = "wrapped" =>
                /\ parsed.err = None
                /\ parsed.Factory = bIn.made.factory
                /\ parsed.FactoryCalldata = bIn.made.cd
                /\ parsed.InnerSignature = bIn.made.inner
           /\ (bOut[1].is /\ ~Decodes(Slice(sig, 0, Len(sig) - 32))) => parsed.err # None

C29_Witness ==
    /\ Called("ParseERC6492Signature")
    /\ bIn.kind = "wrapped"
    /\ Len(bIn.made.cd) = MaxDataLen
    /\ Len(bIn.made.inner) = 65
    /\ bIn.made.factory # Zeros(20)
    /\ bOut[1].parsed.InnerSignature = bIn.made.inner
    /\ bOut[1].parsed.FactoryCalldata = bIn.made.cd

\* C30: VerifyEOASignature answers the same for a last byte v in {0, 1}
\* and for v + 27, answers true exactly when the recovered address is the
\* expected one, answers with an error when the signature is not 65 bytes
\* long, and leaves the caller's signature bytes as they were
C30_EOASignature ==
    Called("VerifyEOASignature") =>
        LET sig == bIn.signature
            out == bOut[1]
            other == VerifyEOASignature(bIn.hash, [sig EXCEPT !.v = sig.v + 27],
                                        bIn.expectedAddress)
            rec == SigToAddr(bIn.hash, sig, sig.v % 27)
        IN /\ (sig.len = 65 /\ sig.v \in {0, 1}) =>
                (out.valid = other.valid /\ out.err = other.err)
           /\ (sig.len = 65 /\ sig.v \in {0, 1, 27, 28}) =>
                (out.valid <=> (rec.err = None /\ rec.addr = bIn.expectedAddress))
           /\ out.valid => (out.err = None /\ sig.len = 65)
           /\ sig.len # 65 => out.err # None
           /\ out.signature = sig

C30_Witness ==
    /\ Called("VerifyEOASignature")
    /\ bIn.signature.len = 65
    /\ bIn.signature.v = 27
    /\ bOut[1].valid
    /\ bOut[1].signature.v = 27

\* the settlePayment transactions sent so far
SettlePaymentTxs == {i \in 1..Len(txLog) : txLog[i].kind = "settlePayment"}

\* C27: Settle passes to settlePayment the signature bytes as received in
\* the payload (the full, possibly wrapped signature, not the inner one),
\* token = the resolved asset address, from = authorization.from, to =
\* requirements.payTo, and value, validAfter, validBefore and nonce of the
\* authorization
C27_SettlePaymentArguments ==
    \A i \in SettlePaymentTxs :
        LET a == txLog[i].args
        IN /\ Len(a) = 8
           /\ a[1] = HexToAddress(GetAssetInfo(GetNetworkConfig(req.network), req.asset).Address)
           /\ a[2] = HexToAddress(pay.auth.From)
           /\ a[3] = HexToAddress(req.payTo)
           /\ a[4] = pay.auth.Value.n
           /\ a[5] = pay.auth.ValidAfter
           /\ a[6] = pay.auth.ValidBefore
           /\ a[7] = pay.auth.Nonce
           /\ a[8] = pay.signature.sig
           /\ pay.signature.sig.wrap # "none" => a[8] # InnerOf(pay.signature.sig)

C27_Witness ==
    \E i \in SettlePaymentTxs :
        /\ txLog[i].args[8].wrap = "ok"
        /\ txLog[i].args[8] = pay.signature.sig

\* the five compared fields of payload and requirements are the same
\* strings
SameFields(a, r) ==
    /\ a.scheme = r.scheme /\ a.network = r.network
    /\ a.amount = r.amount /\ a.asset = r.asset /\ a.payTo = r.payTo

\* C31: for version 2 MatchPayloadToRequirements returns true exactly when
\* accepted scheme, network, amount, asset and payTo equal those of the
\* requirements, for version 1 exactly when scheme and network are equal,
\* and for any other version it returns an error
C31_MatchByVersion ==
    Called("MatchPayloadToRequirements") =>
        LET p == bIn.payloadBytes
            r == bIn.requirementsBytes
            out == bOut[1]
        IN /\ (bIn.version = 2 /\ p.ok /\ r.ok) =>
                (out.err = None /\ (out.match <=> SameFields(p.accepted, r)))
           /\ (bIn.version = 1 /\ p.ok /\ r.ok) =>
                (out.err = None /\ (out.match <=> (p.scheme = r.scheme /\ p.network = r.network)))
           /\ bIn.version \notin {1, 2} => (out.err # None /\ ~out.match)
           /\ out.match => (out.err = None /\ p.ok /\ r.ok)

C31_Witness ==
    /\ Called("MatchPayloadToRequirements")
    /\ bIn.version = 2
    /\ bOut[1].match
    /\ bIn.payloadBytes.accepted.payTo = bIn.requirementsBytes.payTo
    /\ bIn.payloadBytes.accepted.asset.up

\* C32: MatchPayloadToRequirements accepts an accepted.payTo or
\* accepted.asset that differs from the requirement's only in letter case
C32_CaseInsensitiveMatch ==
    Called("MatchPayloadToRequirements") =>
        LET a == bIn.payloadBytes.accepted
            r == bIn.requirementsBytes
        IN (/\ bIn.version = 2 /\ bIn.payloadBytes.ok /\ r.ok
            /\ a.scheme = r.scheme /\ a.network = r.network /\ a.amount = r.amount
            /\ a.asset.form = r.asset.form /\ a.asset.a = r.asset.a
            /\ EqualFold(a.payTo, r.payTo)) => bOut[1].match

\* the request at the server came without a payment header or with an
\* undecodable one
Unpayable ==
    srv # <<>> /\ srv[1].route = "protected" /\ srv[1].header \in {"absent", "undecodable"}

\* C33: a request without a payment header, or with an undecodable one,
\* always ends with a 402 response carrying PAYMENT-REQUIRED and reaches
\* neither verify nor the handler nor settle; a retry with a valid header
\* is verified, and its settlement yields a PAYMENT-RESPONSE header that
\* records a successful settle
C33_ChallengeThenPay ==
    /\ [](Unpayable =>
            /\ srv[1].verify = 0 /\ srv[1].handler = 0 /\ srv[1].settle = 0
            /\ srv[1].status \in {0, 402}
            /\ srv[1].status = 402 =>
                  DecodeHeader(srv[1].headers["PAYMENT-REQUIRED"]).err = None)
    /\ \A n \in 1..MaxRequests :
          (Unpayable /\ srv[1].number = n /\ srv[1].status = 0)
              ~> (Unpayable /\ srv[1].number = n /\ srv[1].status = 402)
    /\ \A n \in 2..MaxRequests :
          (srv # <<>> /\ srv[1].route = "protected" /\ srv[1].number = n
           /\ srv[1].header = "valid" /\ srv[1].status = 0)
              ~> (srv[1].number = n /\ srv[1].verify = 1 /\ srv[1].state # "PaymentPresented"
                  /\ srv[1].state # "Challenged")
    /\ []((srv # <<>> /\ srv[1].settled) =>
            /\ srv[1].header = "valid" /\ srv[1].verify = 1 /\ srv[1].handler = 1
            /\ DecodeHeader(srv[1].headers["PAYMENT-RESPONSE"]).err = None
            /\ DecodeHeader(srv[1].headers["PAYMENT-RESPONSE"]).value.success)

C33_Witness ==
    /\ srv # <<>>
    /\ srv[1].number = 2 /\ srv[1].header = "valid"
    /\ srv[1].settled /\ srv[1].status = 200
    /\ srv[1].headers["PAYMENT-RESPONSE"].enc = "base64"

\* the last call was an admitted transfer on the ERC-20 path
ERC20PathCall == call.fn = "transfer" /\ call.needApprove /\ call.admitted

\* C34: the contract executes an ERC-20-path authorization only when
\* validAfter <= block.timestamp <= validBefore: it reverts with
\* AuthorizationNotYetValid before validAfter, with AuthorizationExpired
\* after validBefore, and accepts both boundary timestamps
C34_InclusiveWindow ==
    ERC20PathCall =>
        /\ call.at < call.validAfter => call.result = "AuthorizationNotYetValid"
        /\ call.at > call.validBefore => call.result = "AuthorizationExpired"
        /\ call.result = "ok" => (call.validAfter <= call.at /\ call.at <= call.validBefore)
        /\ (call.validAfter <= call.at /\ call.at <= call.validBefore) =>
              call.result \notin {"AuthorizationNotYetValid", "AuthorizationExpired"}

C34_Witness ==
    /\ ERC20PathCall
    /\ call.at = call.validBefore /\ call.validAfter < call.at
    /\ call.result = "ok"

\* the call of WaitForTransactionReceipt has returned
WaitReturned == poll # <<>> /\ poll[1].pc = "returned"

\* C35: WaitForTransactionReceipt keeps polling while the transaction is
\* not mined, returns the receipt with its status once it is mined,
\* returns the context's error once the context is cancelled or its
\* deadline has passed, and so always terminates under a deadline
C35_WaitTerminates ==
    /\ [][(poll # <<>> /\ poll[1].pc = "rpc" /\ poll[1].mined = -1
           /\ CtxErr(poll[1], now) = None /\ poll'[1].polls = poll[1].polls + 1)
          => (poll'[1].pc = "select" \/ poll'[1].err = "rpc_error")]_vars
    /\ []((WaitReturned /\ poll[1].err = None) =>
            (poll[1].mined # -1 /\ poll[1].receipt = poll[1].mined))
    /\ []((WaitReturned /\ poll[1].err \in {ErrCanceled, ErrDeadlineExceeded}) =>
            poll[1].err = CtxErr(poll[1], now))
    /\ (poll # <<>> /\ poll[1].client /\ CtxErr(poll[1], now) # None /\ ~WaitReturned)
          ~> (WaitReturned /\ poll[1].err = CtxErr(poll[1], now))
    /\ (poll # <<>> /\ poll[1].deadline # NoDeadline) ~> WaitReturned

C35_Witness ==
    /\ WaitReturned
    /\ poll[1].polls >= 2
    /\ poll[1].err = None /\ poll[1].receipt = TxStatusSuccess
    /\ poll[1].deadline # NoDeadline

\* the EIP-712 hashes Verify may have signed data checked against: the one
\* of the payload's flow, either one when the payload names no type
VerifiedDigests ==
    IF pay.type = "authorizationEip3009" THEN {Digest3009(pay.auth, req)}
    ELSE IF pay.type = "authorization" THEN {DigestERC20(pay.auth, req)}
    ELSE {Digest3009(pay.auth, req), DigestERC20(pay.auth, req)}

\* (a) EOA recovery of the inner signature yields the payer
RecoversToPayer ==
    /\ pay.signature.form = "hex" /\ pay.signature.sig.wrap # "bad"
    /\ pay.signature.sig.len = 65 /\ pay.signature.sig.v \in {0, 27}
    /\ pay.signature.sig.key = pay.auth.From.a
    /\ pay.signature.sig.dig \in VerifiedDigests

\* (b) the payer has code and its isValidSignature returns the magic
WalletApproves ==
    /\ pay.signature.form = "hex" /\ pay.signature.sig.wrap # "bad"
    /\ pay.auth.From.a \in code
    /\ pay.signature.sig.key = Owner(HexToAddress(pay.auth.From))
    /\ pay.signature.sig.dig \in VerifiedDigests

\* (c) the payer has no code and the envelope carries deployment info
UndeployedWithEnvelope == pay.auth.From.a \notin code /\ CarriesDeploymentInfo

\* a step in which Verify returns (on its own or at the start of Settle)
VerifyReturns == vres' # vres /\ vres' # <<>>

\* C36: Verify returns isValid = true only when (a) EOA recovery of the
\* inner signature over the EIP-712 hash yields the payer, or (b) the
\* payer has code and its EIP-1271 check returned the magic, or (c) the
\* payer has no code and the envelope carries deployment info. In case
\* (c) the answer does not depend on the inner signature, and Settle goes
\* from the confirmed deployment to the settlePayment transaction without
\* another verification
C36_ValidOnlyInThreeCases ==
    [][/\ (VerifyReturns /\ vres'[1].isValid) =>
            (RecoversToPayer \/ WalletApproves \/ UndeployedWithEnvelope)
       /\ ( /\ VerifyReturns /\ UndeployedWithEnvelope /\ ReachesSignatureCheck
            /\ pay.type # "other" /\ vres'[3] = None ) => vres'[1].isValid
       /\ (fac.pc = "deploy_wait" /\ fac'.pc \notin {"deploy_wait", "idle"}) =>
            (fac'.pc = "write" /\ vres' = vres)
       /\ (fac.pc = "write" /\ Len(txLog') > Len(txLog)) =>
            (txLog'[Len(txLog')].kind = "settlePayment" /\ vres' = vres)]_vars

\* C36 witness: the wallet was deployed by Settle and settlePayment was
\* written although the inner signature is not the wallet owner's
C36_Witness ==
    /\ vres # <<>> /\ vres[1].isValid
    /\ CarriesDeploymentInfo
    /\ pay.signature.sig.key # Owner(HexToAddress(pay.auth.From))
    /\ pay.auth.From.a \in code
    /\ \E i \in SettlePaymentTxs : \E j \in 1..(i - 1) :
          /\ txLog[j].kind = "factory" /\ txLog[j].status = TxStatusSuccess
          /\ txLog[j].call = txLog[i].call

\* Verify accepted the payload on the ERC-20 flow named by its type
AcceptedOnERC20Flow == vres # <<>> /\ vres[1].isValid /\ pay.type = "authorization"

\* C37: for every ERC-20-flow payload that Verify accepts, the token inside
\* the signed authorization is the asset address that Settle passes as
\* token to settlePayment
C37_SignedTokenIsSettledToken ==
    AcceptedOnERC20Flow =>
        LET assetInfo == GetAssetInfo(GetNetworkConfig(req.network), req.asset)
        IN /\ HexToAddress(pay.auth.Token) = HexToAddress(assetInfo.Address)
           /\ \A i \in SettlePaymentTxs : txLog[i].args[1] = HexToAddress(pay.auth.Token)

\* two Verify calls on the same payload, neither of which met an RPC failure
SamePayloadVerified(i, j) ==
    wrk[i].pay = wrk[j].pay /\ wrk[i].met = None /\ wrk[j].met = None

\* C38: Verify reads neither the nonce state of the authorization nor the
\* payer's balance or allowance: two calls on the same payload and
\* requirements return the same result whatever the chain holds for them,
\* so a payload that has been settled still verifies as valid
C38_VerifyIgnoresChainState ==
    \A i, j \in DOMAIN wrk :
        SamePayloadVerified(i, j) =>
            /\ wrk[i].v.isValid = wrk[j].v.isValid
            /\ wrk[i].v.reason = wrk[j].v.reason
            /\ wrk[i].v.payer = wrk[j].v.payer

\* C38 witness: the payload was valid before its settlement and is valid
\* after it, with the nonce used and the allowance spent
C38_Witness ==
    \E i, j \in DOMAIN wrk :
        /\ i < j /\ SamePayloadVerified(i, j)
        /\ ~wrk[i].used /\ wrk[j].used
        /\ wrk[j].allowance < wrk[i].allowance
        /\ wrk[j].balance < wrk[i].balance
        /\ wrk[i].v.isValid /\ wrk[j].v.isValid

\* the factory transactions sent so far
FactoryTxs == {i \in 1..Len(txLog) : txLog[i].kind = "factory"}

\* both Settle calls have begun and neither has returned
BothInFlight == fac.pc # "idle" /\ wrk.fac.pc # "idle"

\* C39: two Settle calls running concurrently on payloads signed by the
\* same undeployed counterfactual wallet, with deployment enabled, send
\* the factory deployment transaction at most once in total
C39_DeployOnce == BothInFlight => Cardinality(FactoryTxs) <= 1

\* the simulated call of goroutine p failed in a way that does not show
\* the function: a revert without the keywords, an RPC outage or a
\* cancelled context
ProbeFailedUnrecognized(p) ==
    /\ prober[p].out # None
    /\ ~(prober[p].out = "ok" \/ SaysKeyword(prober[p].out))

\* the payload carries the payer's own 65-byte signature under the
\* Facilitator domain
SignedByPayerForERC20 ==
    pay.signature = EOASig(pay.auth.From.a, DigestERC20(pay.auth, req))

\* C40: VerifyEIP3009Support turns every failure of the simulated call
\* that is no recognized revert (an RPC outage and a cancelled context
\* among them) into the answer false, stores it, and answers every later
\* call for the key from the cache without a new probe; the client and
\* the facilitator's Verify of a payload without type then take the ERC-20
\* flow
C40_FailureCachedAsUnsupported ==
    [][/\ \A p \in Probers :
            (prober[p].pc = "store" /\ prober'[p].pc = "done" /\ ProbeFailedUnrecognized(p)) =>
                (~prober'[p].ret /\ cache'[KeyOf(p)] = "no")
       /\ \A p \in Probers :
            (prober[p].pc \in {"idle", "done"} /\ prober'[p] # prober[p]) =>
                LET c == cache[CacheKey(ProbeChain, prober'[p].token)]
                IN c # "absent" =>
                      /\ prober'[p].pc = "done" /\ prober'[p].out = None
                      /\ prober'[p].ret = (c = "yes")
                      /\ cache' = cache
       /\ ( /\ cli.pc = "idle" /\ cres = <<>> /\ cli' # cli
            /\ Cached(req) = "no" /\ ~ClientAsset.SupportsEIP3009 ) =>
                (cli'.pc = "allowance" /\ cli'.calls = <<>> /\ cache' = cache)
       /\ (vres' # vres /\ pay.type = None /\ ReachesTypeCheck /\ Cached(req) = "no") =>
                /\ vres'[1].store = "absent" /\ cache' = cache
                /\ vres'[1].calls = <<>> \/ vres'[1].calls[1] # "ReadContract"
                /\ vres'[3] = None => (vres'[1].isValid <=> SignedByPayerForERC20)]_vars

\* C40 witness: the probe of a token that has the function met a
\* cancelled context; false was stored, and from the cache the client
\* went to its allowance read and Verify accepted a payload without type
\* signed under the Facilitator domain, neither making the simulated call
C40_Witness ==
    /\ tokenSays["T2"] = "err_keyword"
    /\ prober[1].pc = "done" /\ prober[1].out = "context_canceled" /\ ~prober[1].ret
    /\ ClientCacheEntry = "no"
    /\ cli.pc = "allowance" /\ cli.calls = <<>>
    /\ vres # <<>> /\ pay.type = None /\ SignedByPayerForERC20
    /\ vres[1].isValid
    /\ vres[1].calls = <<>> \/ vres[1].calls[1] # "ReadContract"

====
